---------------------------- MODULE Spec2Model ----------------------------
(***************************************************************************)
(* DeviShell (src/main_v2.py): the plugin loader, the alias store and the  *)
(* command router (execute_command) driven by the main loop; the startup   *)
(* script and the command history; the alias and bookmark files; the       *)
(* working directory; the prompt cache; the configuration file and the     *)
(* config_set and theme commands; one turn of the prompt loop with its     *)
(* cache check; the external-command fallback; the tab completer.  The     *)
(* fallback of the earlier shell (src/main.py) is modelled beside it.      *)
(*                                                                         *)
(* The module holds one specification per concern.  Each specification     *)
(* follows the variables its actions write; the other variables keep the   *)
(* value Init gives them.                                                  *)
(*                                                                         *)
(* A command line is a sequence of whitespace-free tokens (the result of   *)
(* str.split()).  A command string (an alias expansion) is a sequence of   *)
(* words separated by the element " ": Join builds it as " ".join does,    *)
(* Split takes it apart as str.split() does.                               *)
(***************************************************************************)
EXTENDS Naturals, Sequences, FiniteSets

VARIABLES
    pc,               \* position of main(): "boot", "load", "script",
                      \* "script_error", "prompt", "exited", "crashed"
    plugin_dir,       \* the *.py files found in PLUGINS_DIR
    pending,          \* files the loop of load_plugins has not reached yet
    loaded_plugins,   \* loaded_plugins, in insertion order (a dict keeps it)
    reports,          \* what load_plugins printed: <<stem, "loaded" | "failed">>
    extended,         \* the keys of EXTENDED_COMMANDS
    aliases,          \* the aliases dict: name -> command string
    last,             \* the record of the last execute_command call
    startup_script,   \* the file STARTUP_SCRIPT: whether it exists, its lines
    script_left,      \* the lines execute_startup_script has not read yet
    command_history,  \* the deque command_history
    ncalls,           \* execute_command calls with a non-empty token list
    alias_file,       \* the file ALIASES_FILE
    bookmark_file,    \* the file BOOKMARKS_FILE
    bookmarks,        \* the bookmarks dict: name -> absolute path
    cwd,              \* os.getcwd()
    oldpwd,           \* os.environ["OLDPWD"], "" when unset
    dirs,             \* the directories that exist
    step,             \* the last store or directory command and the state
                      \* it started from
    config,           \* the config dict: the settings the model reads
    config_file,      \* the file CONFIG_FILE
    prompt_cache,     \* PROMPT_CACHE
    refresh,          \* the last update_prompt_cache call: what the
                      \* repository queries did and how the call ended
    document,         \* the input line of the prompt session and the cursor
    completions,      \* what the completer yielded for it, once asked
    turn,             \* the last pass of the prompt loop: the command, the
                      \* directory and the cached directory it started
                      \* from, whether it was interrupted, whether it
                      \* called update_prompt_cache
    printed           \* the error messages of the last step

routerVars ==
    <<pc, plugin_dir, pending, loaded_plugins, reports, extended, aliases, last>>

startupVars == <<startup_script, script_left, command_history, ncalls>>

storeVars == <<alias_file, bookmark_file, bookmarks>>

dirVars == <<cwd, oldpwd, dirs>>

\* the prompt session
sessionVars == <<document, completions>>

promptVars == <<config, config_file, prompt_cache, refresh, turn, sessionVars>>

\* the variables the startup specification leaves alone
beyondStartup == <<storeVars, dirVars, step, promptVars>>

\* the variables the router and alias specifications leave alone
shellVars == <<startupVars, beyondStartup, printed>>

vars == <<routerVars, shellVars>>

----------------------------------------------------------------------------
(* Bounds *)

\* trailing arguments of an input line
MaxArgs == 2
\* files in the plugin directory
MaxPlugins == 2
\* entries of the alias store
MaxAliases == 2
\* lines of the startup script
MaxScript == 2
\* records of the history when the prompt loop stops taking lines
MaxHistory == 3
\* commits the branch is ahead of or behind its remote
MaxCommits == 1
\* lines typed into the prompt loop of src/main.py
MaxCalls == 6
\* characters of the input line left of the cursor
MaxCursor == 8

----------------------------------------------------------------------------
(* Tokens *)

\* str.lower() on the tokens of the model
Lower(t) ==
    CASE t = "LL" -> "ll"
      [] t = "CD" -> "cd"
      [] OTHER -> t

\* whether int(t) succeeds
IsInt(t) == t \in {"7"}

\* the argument lists of at most MaxArgs tokens drawn from toks
ArgLists(toks) == UNION {[1..n -> toks] : n \in 0..MaxArgs}

RECURSIVE Join(_)
\* " ".join(words)
Join(words) ==
    IF Len(words) <= 1 THEN words
    ELSE <<Head(words), " ">> \o Join(Tail(words))

IsWord(w) == w # " "

\* str.split()
Split(s) == SelectSeq(s, IsWord)

Range(s) == {s[i] : i \in DOMAIN s}

----------------------------------------------------------------------------
(* The registries *)

BuiltinNames == {"cd", "exit", "quit", "clear", "cls", "history"}

\* the extended commands the model gives a handler of their own
ExtendedNames ==
    {"alias", "unalias", "bookmark", "unbookmark", "mkcd", "port_scan",
     "config_set", "theme"}

----------------------------------------------------------------------------
(* Plugin modules: what executing a file of the plugin directory does *)

PluginCatalogue == {"good", "mute", "noreg", "broken", "shadow"}

\* exec_module raises (a syntax error, a failing import, any Exception)
LoadRaises(f) == f = "broken"

\* hasattr(module, 'register')
HasRegister(f) == f \in {"good", "mute", "shadow"}

\* hasattr(module, 'handle_command')
HasHandleCommand(f) == f \in {"good", "noreg", "shadow"}

\* the entries the module's top-level code adds to EXTENDED_COMMANDS
RegistersExtended(f) == IF f = "shadow" THEN {"cd"} ELSE {}

PluginResults == {"true", "false", "raise"}

----------------------------------------------------------------------------
(* load_plugins: one iteration of its loop over the directory *)

\* a loader that stores every module that executed, register or not
LoadOutcomeAnyModule(f) ==
    IF LoadRaises(f) THEN "failed" ELSE "loaded"

\* what the loop body does with file f
LoadOutcome(f) ==
    IF LoadRaises(f) THEN "failed"            \* except Exception: report
    ELSE IF HasRegister(f) THEN "loaded"      \* loaded_plugins[stem] = module
    ELSE "skipped"                            \* nothing is stored or printed

\* a loader whose try encloses the loop: a failing module ends the scan
RemainingAfterAbort(f, files) ==
    IF LoadRaises(f) THEN {} ELSE files \ {f}

\* the files the loop still visits after f
RemainingAfter(f, files) == files \ {f}

LoadPlugin(f) ==
    /\ pc = "load"
    /\ f \in pending
    /\ pending' = RemainingAfter(f, pending)
    /\ loaded_plugins' =
          IF LoadOutcome(f) = "loaded" THEN Append(loaded_plugins, f)
          ELSE loaded_plugins
    /\ reports' =
          IF LoadOutcome(f) = "skipped" THEN reports
          ELSE reports \cup {<<f, LoadOutcome(f)>>}
    /\ extended' =
          IF LoadRaises(f) THEN extended
          ELSE extended \cup RegistersExtended(f)
    /\ UNCHANGED <<pc, plugin_dir, aliases, last>>
    /\ UNCHANGED shellVars

\* load_plugins has returned and STARTUP_SCRIPT does not exist; main() goes
\* on to the prompt loop
StartPrompt ==
    /\ pc = "load"
    /\ pending = {}
    /\ ~startup_script.exists
    /\ pc' = "prompt"
    /\ UNCHANGED <<plugin_dir, pending, loaded_plugins, reports, extended,
                   aliases, last>>
    /\ UNCHANGED shellVars

----------------------------------------------------------------------------
(* The handlers.  Each returns the executors it ran, how the call ended    *)
(* ("returned", "exited" by sys.exit, "raised" an exception) and the alias *)
(* store it leaves.                                                        *)

Call(kind, name, args, result, by) ==
    [kind |-> kind, name |-> name, args |-> args, result |-> result, by |-> by]

Ran(calls, outcome, al) == [calls |-> calls, outcome |-> outcome, aliases |-> al]

EmptyStore == [n \in {} |-> <<>>]

\* aliases[name] = command
StoreSet(al, name, command) ==
    [n \in DOMAIN al \cup {name} |-> IF n = name THEN command ELSE al[n]]

\* del aliases[name]
StoreDel(al, name) == [n \in DOMAIN al \ {name} |-> al[n]]

\* shell_cd catches every exception of os.chdir and returns
shell_cd(args, al, by) ==
    Ran(<<Call("builtin", "cd", args, "ok", by)>>, "returned", al)

shell_exit(name, args, al) ==
    Ran(<<Call("builtin", name, args, "exit", "execute_command")>>, "exited", al)

\* BUILTIN_COMMANDS[command_name](args)
RunBuiltin(name, args, al) ==
    IF name = "cd" THEN shell_cd(args, al, "execute_command")
    ELSE IF name \in {"exit", "quit"} THEN shell_exit(name, args, al)
    ELSE Ran(<<Call("builtin", name, args, "ok", "execute_command")>>,
             "returned", al)

cmd_alias(args, al) ==
    IF Len(args) <= 1
    THEN Ran(<<Call("extended", "alias", args, "ok", "execute_command")>>,
             "returned", al)
    ELSE Ran(<<Call("extended", "alias", args, "ok", "execute_command")>>,
             "returned", StoreSet(al, args[1], Join(Tail(args))))

cmd_unalias(args, al) ==
    IF args = <<>>
    THEN Ran(<<Call("extended", "unalias", args, "usage", "execute_command")>>,
             "returned", al)
    ELSE IF args[1] \in DOMAIN al
    THEN Ran(<<Call("extended", "unalias", args, "ok", "execute_command")>>,
             "returned", StoreDel(al, args[1]))
    ELSE Ran(<<Call("extended", "unalias", args, "not_found", "execute_command")>>,
             "returned", al)

\* mk: whether os.makedirs succeeds ("ok") or raises OSError ("oserror"),
\* or the user interrupts the handler after shell_cd returned ("interrupt"):
\* except OSError does not catch KeyboardInterrupt
cmd_mkcd(args, al, mk) ==
    IF args = <<>>
    THEN Ran(<<Call("extended", "mkcd", args, "usage", "execute_command")>>,
             "returned", al)
    ELSE IF mk = "oserror"
    THEN Ran(<<Call("extended", "mkcd", args, "error", "execute_command")>>,
             "returned", al)
    ELSE IF mk = "interrupt"
    THEN Ran(<<Call("extended", "mkcd", args, "interrupt", "execute_command")>>
                \o shell_cd(<<args[1]>>, al, "cmd_mkcd").calls,
             "interrupted", al)
    ELSE Ran(<<Call("extended", "mkcd", args, "ok", "execute_command")>>
                \o shell_cd(<<args[1]>>, al, "cmd_mkcd").calls,
             "returned", al)

\* int(args[1]) and int(args[2]) raise ValueError on a token that is no number
cmd_port_scan(args, al) ==
    IF \/ Len(args) > 1 /\ ~IsInt(args[2])
       \/ Len(args) > 2 /\ ~IsInt(args[3])
    THEN Ran(<<Call("extended", "port_scan", args, "raise", "execute_command")>>,
             "raised", al)
    ELSE Ran(<<Call("extended", "port_scan", args, "ok", "execute_command")>>,
             "returned", al)

\* EXTENDED_COMMANDS[command_name](args)
RunExtended(name, args, al, mk) ==
    CASE name = "alias" -> cmd_alias(args, al)
      [] name = "unalias" -> cmd_unalias(args, al)
      [] name = "mkcd" -> cmd_mkcd(args, al, mk)
      [] name = "port_scan" -> cmd_port_scan(args, al)
      [] OTHER -> Ran(<<Call("extended", name, args, "ok", "execute_command")>>,
                      "returned", al)

\* what became of the interpreter.  ps: os.path.exists(ps_path) is false
\* ("missing", nothing is spawned); the process ends with status 0
\* ("found") or another status ("nonzero", CalledProcessError); the user
\* interrupts the wait ("interrupt", KeyboardInterrupt); subprocess.run
\* raises another exception ("oserror")
ExternalResult(ps) ==
    CASE ps = "missing" -> "not_found"
      [] ps = "nonzero" -> "nonzero"
      [] ps = "interrupt" -> "interrupted"
      [] ps = "oserror" -> "error"
      [] OTHER -> "ran"

\* a fallback that lets KeyboardInterrupt pass to its caller
run_system_command_uncaught(command, al, ps) ==
    Ran(<<Call("external", "powershell", command, ExternalResult(ps),
               "execute_command")>>,
        IF ps = "interrupt" THEN "interrupted" ELSE "returned", al)

\* run_system_command(command): every failure of the process is caught
run_system_command(command, al, ps) ==
    Ran(<<Call("external", "powershell", command, ExternalResult(ps),
               "execute_command")>>,
        "returned", al)

\* what run_system_command prints: echo_error for a missing interpreter and
\* for an unexpected exception, echo_warning for an interrupt, nothing for a
\* non-zero exit status
SystemCommandPrinted(ps) ==
    CASE ps = "missing" -> {"PowerShell executable not found"}
      [] ps = "interrupt" -> {"Command interrupted"}
      [] ps = "oserror" -> {"An unexpected error occurred"}
      [] OTHER -> {}

----------------------------------------------------------------------------
(* execute_command *)

\* an alias check that looks the substituted command up once more
AliasStepAgain(al, command) ==
    IF Lower(Head(command)) \in DOMAIN al
    THEN LET once == Split(al[Lower(Head(command))]) \o Tail(command)
         IN  IF Lower(Head(once)) \in DOMAIN al
             THEN [command |-> Split(al[Lower(Head(once))]) \o Tail(once),
                   subst |-> 2]
             ELSE [command |-> once, subst |-> 1]
    ELSE [command |-> command, subst |-> 0]

\* an alias check that forgets the arguments typed after the alias
AliasStepDropArgs(al, command) ==
    IF Lower(Head(command)) \in DOMAIN al
    THEN [command |-> Split(al[Lower(Head(command))]), subst |-> 1]
    ELSE [command |-> command, subst |-> 0]

\* the alias check: command_name = command[0].lower(); if it is a key of
\* aliases, command = alias_cmd.split() + args
AliasStep(al, command) ==
    IF Lower(Head(command)) \in DOMAIN al
    THEN [command |-> Split(al[Lower(Head(command))]) \o Tail(command),
          subst |-> 1]
    ELSE [command |-> command, subst |-> 0]

\* a router that consults EXTENDED_COMMANDS before BUILTIN_COMMANDS
StageExtendedFirst(ext, command_name) ==
    IF command_name \in ext THEN "extended"
    ELSE IF command_name \in BuiltinNames THEN "builtin"
    ELSE "chain"

\* the order of the registry lookups
Stage(ext, command_name) ==
    IF command_name \in BuiltinNames THEN "builtin"
    ELSE IF command_name \in ext THEN "extended"
    ELSE "chain"

RECURSIVE PluginChain(_, _, _)
\* the loop over loaded_plugins.items(); res[p] is what p.handle_command
\* does with the command
PluginChain(plugins, command, res) ==
    IF plugins = <<>> THEN [calls |-> <<>>, end |-> "fallthrough"]
    ELSE IF ~HasHandleCommand(Head(plugins))
    THEN PluginChain(Tail(plugins), command, res)
    ELSE LET p == Head(plugins)
             c == Call("plugin", p, command, res[p], "execute_command")
             rest == PluginChain(Tail(plugins), command, res)
         IN  IF res[p] = "true" THEN [calls |-> <<c>>, end |-> "handled"]
             ELSE IF res[p] = "raise" THEN [calls |-> <<c>>, end |-> "raised"]
             ELSE [calls |-> <<c>> \o rest.calls, end |-> rest.end]

\* a plugin loop without its return: the interpreter runs after it anyway
FallbackNoReturn(chain, command, al, ps) ==
    LET r == run_system_command(command, al, ps)
    IN  Ran(chain.calls \o r.calls,
            IF chain.end = "raised" THEN "raised" ELSE r.outcome, al)

\* what follows the plugin loop
Fallback(chain, command, al, ps) ==
    IF chain.end = "fallthrough"
    THEN LET r == run_system_command(command, al, ps)
         IN  Ran(chain.calls \o r.calls, r.outcome, al)
    ELSE Ran(chain.calls,
             IF chain.end = "raised" THEN "raised" ELSE "returned", al)

\* the executor execute_command selects for a line: the command after the
\* alias check, its lowercased name and the stage that takes it
Resolve(al, ext, command) ==
    LET a == AliasStep(al, command)
    IN  [cmd |-> a.command, subst |-> a.subst,
         command_name |-> Lower(Head(a.command)),
         stage |-> Stage(ext, Lower(Head(a.command)))]

\* env: what the environment does during the call (res, mk, ps)
execute_command(al, ext, plugins, command, env) ==
    LET d == Resolve(al, ext, command)
        args == Tail(d.cmd)
        r == CASE d.stage = "builtin" -> RunBuiltin(d.command_name, args, al)
               [] d.stage = "extended" ->
                      RunExtended(d.command_name, args, al, env.mk)
               [] OTHER -> Fallback(PluginChain(plugins, d.cmd, env.res),
                                    d.cmd, al, env.ps)
    IN  [line |-> command, al |-> al, cmd |-> d.cmd, subst |-> d.subst,
         stage |-> d.stage, calls |-> r.calls, outcome |-> r.outcome,
         aliases |-> r.aliases]

NoCall ==
    [line |-> <<>>, al |-> EmptyStore, cmd |-> <<>>, subst |-> 0,
     stage |-> "none", calls |-> <<>>, outcome |-> "none",
     aliases |-> EmptyStore]

\* the environments that make a difference for this line
Envs(al, ext, plugins, command) ==
    LET d == Resolve(al, ext, command)
        command_name == d.command_name
        stage == d.stage
        quiet == [p \in Range(plugins) |-> "false"]
        handlers == {p \in Range(plugins) : HasHandleCommand(p)}
    IN  IF stage = "chain"
        THEN {[res |-> [p \in Range(plugins) |->
                           IF p \in handlers THEN f[p] ELSE "false"],
               mk |-> "ok", ps |-> "found"] :
                 f \in [handlers -> PluginResults]}
             \cup {[res |-> quiet, mk |-> "ok", ps |-> "missing"]}
        ELSE IF stage = "extended" /\ command_name = "mkcd"
        THEN {[res |-> quiet, mk |-> m, ps |-> "found"] : m \in {"ok", "oserror"}}
        ELSE {[res |-> quiet, mk |-> "ok", ps |-> "found"]}

----------------------------------------------------------------------------
(* main(): the prompt loop *)

\* one iteration with a non-empty line: execute_command runs; an exception
\* other than KeyboardInterrupt and EOFError leaves the loop and the process
MainLoopLine(line) ==
    /\ pc = "prompt"
    /\ \E env \in Envs(aliases, extended, loaded_plugins, line) :
          LET r == execute_command(aliases, extended, loaded_plugins, line, env)
          IN  /\ Cardinality(DOMAIN r.aliases) <= MaxAliases
              /\ last' = r
              /\ aliases' = r.aliases
              /\ pc' = CASE r.outcome = "exited" -> "exited"
                         [] r.outcome = "raised" -> "crashed"
                         [] OTHER -> "prompt"
    /\ UNCHANGED <<plugin_dir, pending, loaded_plugins, reports, extended>>
    /\ UNCHANGED shellVars

\* end of input at the prompt: except EOFError: shell_exit([])
MainLoopEOF ==
    /\ pc = "prompt"
    /\ pc' = "exited"
    /\ last' = [NoCall EXCEPT !.outcome = "exited", !.stage = "eof"]
    /\ UNCHANGED <<plugin_dir, pending, loaded_plugins, reports, extended,
                   aliases>>
    /\ UNCHANGED shellVars

----------------------------------------------------------------------------
(* execute_startup_script and command_history *)

\* the capacity of the deque command_history
HistoryMaxLen == 100

\* deque.append: at capacity the oldest record leaves
DequeAppend(h, x) ==
    IF Len(h) >= HistoryMaxLen THEN Append(Tail(h), x) ELSE Append(h, x)

\* a router that records the line once its handler has come back
HistoryAfterDispatch(history, command, outcome) ==
    IF outcome = "raised" THEN history
    ELSE DequeAppend(history, Join(command))

\* command_history after execute_command(command): the append is the first
\* statement after the empty check, so the outcome plays no part
HistoryAfter(history, command, outcome) ==
    DequeAppend(history, Join(command))

\* what one execute_command call with result r leaves behind
Executed(command, r) ==
    /\ last' = r
    /\ aliases' = r.aliases
    /\ command_history' = HistoryAfter(command_history, command, r.outcome)
    /\ ncalls' = ncalls + 1

NoScript == [exists |-> FALSE, lines |-> <<>>]

ScriptFile(lines) == [exists |-> TRUE, lines |-> lines]

\* t.startswith('#')
StartsWithHash(t) == t \in {"#", "#c"}

\* a raw line is a command string, blanks included: line.strip() is not
\* empty and does not start with '#'
IsScriptCommand(raw) ==
    Split(raw) # <<>> /\ ~StartsWithHash(Head(Split(raw)))

\* STARTUP_SCRIPT exists: the file is opened and the loop begins
StartScript ==
    /\ pc = "load"
    /\ pending = {}
    /\ startup_script.exists
    /\ pc' = "script"
    /\ script_left' = startup_script.lines
    /\ printed' = {}
    /\ UNCHANGED <<plugin_dir, pending, loaded_plugins, reports, extended,
                   aliases, last, startup_script, command_history, ncalls>>
    /\ UNCHANGED beyondStartup

\* one iteration of "for line in f".  The try encloses the loop: an
\* exception of the call is reported by the except clause, which ends the
\* function; sys.exit is not an Exception and ends the process
ScriptLine ==
    /\ pc = "script"
    /\ script_left # <<>>
    /\ script_left' = Tail(script_left)
    /\ LET command == Split(Head(script_left))
       IN  IF ~IsScriptCommand(Head(script_left))
           THEN UNCHANGED <<pc, aliases, last, command_history, ncalls,
                            printed>>
           ELSE \E env \in Envs(aliases, extended, loaded_plugins, command) :
                  LET r == execute_command(aliases, extended, loaded_plugins,
                                           command, env)
                  IN  /\ Executed(command, r)
                      /\ pc' = CASE r.outcome = "exited" -> "exited"
                                 [] r.outcome = "raised" -> "script_error"
                                 [] OTHER -> "script"
                      /\ printed' = IF r.outcome = "raised"
                                    THEN {"Startup script error"} ELSE {}
    /\ UNCHANGED <<plugin_dir, pending, loaded_plugins, reports, extended,
                   startup_script>>
    /\ UNCHANGED beyondStartup

\* execute_startup_script has returned, from the end of the file or from
\* its except clause
ScriptDone ==
    \/ pc = "script_error"
    \/ pc = "script" /\ script_left = <<>>

EndScript ==
    /\ ScriptDone
    /\ pc' = "prompt"
    /\ UNCHANGED <<plugin_dir, pending, loaded_plugins, reports, extended,
                   aliases, last, startupVars, printed>>
    /\ UNCHANGED beyondStartup

\* one iteration of the prompt loop, the history followed
MainLoopRecorded(line) ==
    /\ pc = "prompt"
    /\ Len(command_history) < MaxHistory
    /\ \E env \in Envs(aliases, extended, loaded_plugins, line) :
          LET r == execute_command(aliases, extended, loaded_plugins, line, env)
          IN  /\ Cardinality(DOMAIN r.aliases) <= MaxAliases
              /\ Executed(line, r)
              /\ pc' = CASE r.outcome = "exited" -> "exited"
                         [] r.outcome = "raised" -> "crashed"
                         [] OTHER -> "prompt"
    /\ printed' = {}
    /\ UNCHANGED <<plugin_dir, pending, loaded_plugins, reports, extended,
                   startup_script, script_left>>
    /\ UNCHANGED beyondStartup

\* one iteration of the prompt loop with a line no registry and no plugin
\* takes: the interpreter is asked, ps tells what becomes of it
MainLoopExternal(line, ps) ==
    /\ pc = "prompt"
    /\ Len(command_history) < MaxHistory
    /\ LET r == execute_command(aliases, extended, loaded_plugins, line,
                                [res |-> [p \in Range(loaded_plugins) |-> "false"],
                                 mk |-> "ok", ps |-> ps])
       IN  /\ r.stage = "chain"
           /\ Executed(line, r)
           /\ printed' = SystemCommandPrinted(ps)
           /\ pc' = CASE r.outcome = "exited" -> "exited"
                      [] r.outcome = "raised" -> "crashed"
                      [] OTHER -> "prompt"
    /\ UNCHANGED <<plugin_dir, pending, loaded_plugins, reports, extended,
                   startup_script, script_left>>
    /\ UNCHANGED beyondStartup

----------------------------------------------------------------------------
(* The alias and bookmark files *)

\* a file: "missing", "unreadable", "corrupt" (no JSON document) or "json",
\* an object whose members are the <<name, value>> pairs in file order
File(state, pairs) == [state |-> state, pairs |-> pairs]

ObjectFile(pairs) == File("json", pairs)

MissingFile == File("missing", <<>>)

UnreadableFile == File("unreadable", <<>>)

CorruptFile == File("corrupt", <<>>)

RECURSIVE FromPairs(_)
\* the dict json.load builds from the members: a later duplicate wins
FromPairs(pairs) ==
    IF pairs = <<>> THEN EmptyStore
    ELSE LET n == Len(pairs)
         IN  StoreSet(FromPairs(SubSeq(pairs, 1, n - 1)), pairs[n][1], pairs[n][2])

\* json.dump(store): every entry once; the order is the dict's, which the
\* model does not follow, so any order
Dumps(store) ==
    LET entries == {<<n, store[n]>> : n \in DOMAIN store}
    IN  {d \in [1..Cardinality(entries) -> entries] :
            \A i, j \in DOMAIN d : i # j => d[i] # d[j]}

\* load_aliases, load_bookmarks: open and json.load inside a try
LoadStore(file) ==
    IF file.state = "json"
    THEN [store |-> FromPairs(file.pairs), failed |-> FALSE]
    ELSE [store |-> EmptyStore, failed |-> TRUE]       \* except Exception

\* a save that adds to the file instead of replacing its content
SaveStoreMerge(file, dump, w) ==
    CASE w = "ok" -> [file |-> ObjectFile(file.pairs \o dump), failed |-> FALSE]
      [] w = "denied" -> [file |-> file, failed |-> TRUE]
      [] OTHER -> [file |-> CorruptFile, failed |-> TRUE]

\* save_aliases, save_bookmarks: open(.., 'w') and json.dump inside a try.
\* w: the write succeeds ("ok"), open fails ("denied"), or the write fails
\* after open has truncated the file ("partial")
SaveStore(file, dump, w) ==
    CASE w = "ok" -> [file |-> ObjectFile(dump), failed |-> FALSE]
      [] w = "denied" -> [file |-> file, failed |-> TRUE]
      [] OTHER -> [file |-> CorruptFile, failed |-> TRUE]

\* a handler that undoes its change when the save fails
StoreRolledBack(before, after, failed) == IF failed THEN before ELSE after

\* the store a mutating handler leaves: it changed the dict before the
\* save, and the save's except clause only prints
StoreAfterSave(before, after, failed) == after

\* ensure_config_dir on one file, outside any try: a missing file is
\* created holding {}; w = "denied": it cannot be created and open raises
EnsureFile(file, w) ==
    IF file.state # "missing" THEN [file |-> file, raised |-> FALSE]
    ELSE IF w = "ok" THEN [file |-> ObjectFile(<<>>), raised |-> FALSE]
    ELSE [file |-> file, raised |-> TRUE]

\* the state a command starts from
Snapshot(op, args, w, wrote) ==
    [op |-> op, args |-> args, w |-> w, wrote |-> wrote,
     aliases |-> aliases, alias_file |-> alias_file,
     bookmarks |-> bookmarks, bookmark_file |-> bookmark_file,
     cwd |-> cwd, oldpwd |-> oldpwd, dirs |-> dirs]

\* main() up to load_plugins: ensure_config_dir, load_bookmarks,
\* load_aliases
Boot(w) ==
    /\ pc = "boot"
    /\ step' = Snapshot("boot", <<>>, w, FALSE)
    /\ LET b == EnsureFile(bookmark_file, w)
           a == EnsureFile(alias_file, w)
           lb == LoadStore(b.file)
           la == LoadStore(a.file)
       IN  IF b.raised \/ a.raised
           THEN /\ pc' = "crashed"
                /\ bookmark_file' = b.file
                /\ alias_file' = IF b.raised THEN alias_file ELSE a.file
                /\ printed' = {}
                /\ UNCHANGED <<bookmarks, aliases>>
           ELSE /\ pc' = "load"
                /\ bookmark_file' = b.file
                /\ alias_file' = a.file
                /\ bookmarks' = lb.store
                /\ aliases' = la.store
                /\ printed' =
                      {m \in {"Failed to load bookmarks"} : lb.failed}
                      \cup {m \in {"Failed to load aliases"} : la.failed}
    /\ UNCHANGED <<plugin_dir, pending, loaded_plugins, reports, extended,
                   last, startupVars, dirVars>>
    /\ UNCHANGED promptVars

\* whether the handlers of this call reached save_aliases
WritesAliases(calls) ==
    /\ calls # <<>>
    /\ calls[1].kind = "extended"
    /\ \/ calls[1].name = "alias" /\ Len(calls[1].args) >= 2
       \/ calls[1].name = "unalias" /\ calls[1].result = "ok"

\* one iteration of the prompt loop, the alias file followed
MainLoopSaved(line, w) ==
    /\ pc = "prompt"
    /\ \E env \in Envs(aliases, extended, loaded_plugins, line) :
          LET r == execute_command(aliases, extended, loaded_plugins, line, env)
              wrote == WritesAliases(r.calls)
          IN  /\ Cardinality(DOMAIN r.aliases) <= MaxAliases
              /\ last' = r
              /\ step' = Snapshot(Lower(Head(r.cmd)), Tail(r.cmd), w, wrote)
              /\ pc' = CASE r.outcome = "exited" -> "exited"
                         [] r.outcome = "raised" -> "crashed"
                         [] OTHER -> "prompt"
              /\ IF wrote
                 THEN \E dump \in Dumps(r.aliases) :
                        LET sv == SaveStore(alias_file, dump, w)
                        IN  /\ alias_file' = sv.file
                            /\ aliases' = StoreAfterSave(aliases, r.aliases,
                                                         sv.failed)
                            /\ printed' = {m \in {"Failed to save aliases"} :
                                              sv.failed}
                 ELSE /\ w = "ok"
                      /\ aliases' = r.aliases
                      /\ UNCHANGED alias_file
                      /\ printed' = {}
    /\ UNCHANGED <<plugin_dir, pending, loaded_plugins, reports, extended,
                   startupVars, bookmark_file, bookmarks, dirVars>>
    /\ UNCHANGED promptVars

----------------------------------------------------------------------------
(* Directories, bookmarks and shell_cd *)

\* os.path.expanduser("~")
Home == "/home/u"

\* the directories that exist when the shell starts
Directories == {Home, "/a", "/a/sub", "/b"}

\* paths that exist and are no directory
PlainFiles == {"/f"}

\* the relative name "sub" seen from wd
SubOf(wd) ==
    CASE wd = "/a" -> "/a/sub"
      [] wd = "/b" -> "/b/sub"
      [] wd = "/a/sub" -> "/a/sub/sub"
      [] OTHER -> "/home/u/sub"

\* os.path.abspath(os.path.expanduser(p)) in working directory wd
AbsPath(wd, p) ==
    CASE p = "~" -> Home
      [] p = "sub" -> SubOf(wd)
      [] OTHER -> p

\* t.startswith("@")
IsBookmarkRef(t) == t \in {"@w", "@d"}

\* t[1:]
RefName(t) == IF t = "@w" THEN "w" ELSE "d"

\* a handler that stores the path without looking at it
cmd_bookmark_unchecked(args, bm, wd, ds) ==
    IF args = <<>>
    THEN [bookmarks |-> bm, wrote |-> FALSE, printed |-> {}]
    ELSE [bookmarks |->
              StoreSet(bm, args[1],
                       AbsPath(wd, IF Len(args) > 1 THEN args[2] ELSE wd)),
          wrote |-> TRUE, printed |-> {}]

\* a handler that keeps the entry a name already has
cmd_bookmark_keep(args, bm, wd, ds) ==
    IF args = <<>>
    THEN [bookmarks |-> bm, wrote |-> FALSE, printed |-> {}]
    ELSE IF AbsPath(wd, IF Len(args) > 1 THEN args[2] ELSE wd) \notin ds
    THEN [bookmarks |-> bm, wrote |-> FALSE, printed |-> {"Not a directory"}]
    ELSE IF args[1] \in DOMAIN bm
    THEN [bookmarks |-> bm, wrote |-> TRUE, printed |-> {}]
    ELSE [bookmarks |->
              StoreSet(bm, args[1],
                       AbsPath(wd, IF Len(args) > 1 THEN args[2] ELSE wd)),
          wrote |-> TRUE, printed |-> {}]

\* cmd_bookmark in working directory wd, with the directories ds: the
\* store it leaves, whether it reached save_bookmarks, its error messages
cmd_bookmark(args, bm, wd, ds) ==
    IF args = <<>>
    THEN [bookmarks |-> bm, wrote |-> FALSE, printed |-> {}]
    ELSE LET target_path ==
                 AbsPath(wd, IF Len(args) > 1 THEN args[2] ELSE wd)
         IN  IF target_path \notin ds
             THEN [bookmarks |-> bm, wrote |-> FALSE,
                   printed |-> {"Not a directory"}]
             ELSE [bookmarks |-> StoreSet(bm, args[1], target_path),
                   wrote |-> TRUE, printed |-> {}]

cmd_unbookmark(args, bm) ==
    IF args = <<>>
    THEN [bookmarks |-> bm, wrote |-> FALSE, printed |-> {"Usage: unbookmark"}]
    ELSE IF args[1] \in DOMAIN bm
    THEN [bookmarks |-> StoreDel(bm, args[1]), wrote |-> TRUE, printed |-> {}]
    ELSE [bookmarks |-> bm, wrote |-> FALSE, printed |-> {"Bookmark not found"}]

\* the end of a bookmark handler with result h: save_bookmarks if reached
SavedBookmarks(h, w) ==
    IF h.wrote
    THEN \E dump \in Dumps(h.bookmarks) :
           LET sv == SaveStore(bookmark_file, dump, w)
           IN  /\ bookmark_file' = sv.file
               /\ bookmarks' = StoreAfterSave(bookmarks, h.bookmarks, sv.failed)
               /\ printed' = h.printed
                     \cup {m \in {"Failed to save bookmarks"} : sv.failed}
    ELSE /\ w = "ok"
         /\ UNCHANGED <<bookmarks, bookmark_file>>
         /\ printed' = h.printed

\* the line reaches the handler called name at this stage: no alias and
\* no earlier registry stands in its way
Routed(line, stage, name) ==
    /\ \E env \in Envs(aliases, extended, loaded_plugins, line) :
          last' = execute_command(aliases, extended, loaded_plugins, line, env)
    /\ last'.stage = stage
    /\ last'.calls[1].name = name
    /\ last'.calls[1].args = Tail(line)

\* the line "bookmark args" at the prompt, dispatched to cmd_bookmark
Bookmark(args, w) ==
    /\ pc = "prompt"
    /\ Routed(<<"bookmark">> \o args, "extended", "bookmark")
    /\ step' = Snapshot("bookmark", args, w,
                        cmd_bookmark(args, bookmarks, cwd, dirs).wrote)
    /\ SavedBookmarks(cmd_bookmark(args, bookmarks, cwd, dirs), w)
    /\ UNCHANGED <<pc, plugin_dir, pending, loaded_plugins, reports, extended,
                   aliases, startupVars, alias_file, dirVars>>
    /\ UNCHANGED promptVars

\* the line "unbookmark args" at the prompt, dispatched to cmd_unbookmark
Unbookmark(args, w) ==
    /\ pc = "prompt"
    /\ Routed(<<"unbookmark">> \o args, "extended", "unbookmark")
    /\ step' = Snapshot("unbookmark", args, w,
                        cmd_unbookmark(args, bookmarks).wrote)
    /\ SavedBookmarks(cmd_unbookmark(args, bookmarks), w)
    /\ UNCHANGED <<pc, plugin_dir, pending, loaded_plugins, reports, extended,
                   aliases, startupVars, alias_file, dirVars>>
    /\ UNCHANGED promptVars

\* a cd that goes home when the bookmark is unknown
CdTargetHomeOnUnknown(args, old, bm) ==
    IF args = <<>> THEN [ok |-> TRUE, path |-> "~", printed |-> {}]
    ELSE IF IsBookmarkRef(args[1])
    THEN IF RefName(args[1]) \in DOMAIN bm
         THEN [ok |-> TRUE, path |-> bm[RefName(args[1])], printed |-> {}]
         ELSE [ok |-> TRUE, path |-> "~", printed |-> {"Bookmark not found"}]
    ELSE IF args[1] = "-"
    THEN IF old # "" THEN [ok |-> TRUE, path |-> old, printed |-> {}]
         ELSE [ok |-> FALSE, path |-> "", printed |-> {"No previous directory"}]
    ELSE [ok |-> TRUE, path |-> args[1], printed |-> {}]

\* a cd - that goes home when OLDPWD is unset
CdTargetDashHome(args, old, bm) ==
    IF args = <<>> THEN [ok |-> TRUE, path |-> "~", printed |-> {}]
    ELSE IF IsBookmarkRef(args[1])
    THEN IF RefName(args[1]) \in DOMAIN bm
         THEN [ok |-> TRUE, path |-> bm[RefName(args[1])], printed |-> {}]
         ELSE [ok |-> FALSE, path |-> "", printed |-> {"Bookmark not found"}]
    ELSE IF args[1] = "-"
    THEN IF old # "" THEN [ok |-> TRUE, path |-> old, printed |-> {}]
         ELSE [ok |-> TRUE, path |-> "~", printed |-> {}]
    ELSE [ok |-> TRUE, path |-> args[1], printed |-> {}]

\* shell_cd, the choice of the path: home, a bookmark, OLDPWD or the
\* argument; an unknown bookmark and an unset OLDPWD end the handler
CdTarget(args, old, bm) ==
    IF args = <<>> THEN [ok |-> TRUE, path |-> "~", printed |-> {}]
    ELSE IF IsBookmarkRef(args[1])
    THEN IF RefName(args[1]) \in DOMAIN bm
         THEN [ok |-> TRUE, path |-> bm[RefName(args[1])], printed |-> {}]
         ELSE [ok |-> FALSE, path |-> "", printed |-> {"Bookmark not found"}]
    ELSE IF args[1] = "-"
    THEN IF old # "" THEN [ok |-> TRUE, path |-> old, printed |-> {}]
         ELSE [ok |-> FALSE, path |-> "", printed |-> {"No previous directory"}]
    ELSE [ok |-> TRUE, path |-> args[1], printed |-> {}]

\* a cd that notes the directory it arrived in
ChdirOldAfter(wd, path, ds) ==
    IF AbsPath(wd, path) \in ds
    THEN [cwd |-> AbsPath(wd, path), oldpwd |-> AbsPath(wd, path),
          printed |-> {}]
    ELSE [cwd |-> wd, oldpwd |-> wd, printed |-> {"No such directory"}]

\* shell_cd, the try block: OLDPWD is assigned first, then os.chdir(path);
\* FileNotFoundError and every other exception are caught and reported
Chdir(wd, path, ds) ==
    IF AbsPath(wd, path) \in ds
    THEN [cwd |-> AbsPath(wd, path), oldpwd |-> wd, printed |-> {}]
    ELSE IF AbsPath(wd, path) \in PlainFiles
    THEN [cwd |-> wd, oldpwd |-> wd, printed |-> {"Error changing directory"}]
    ELSE [cwd |-> wd, oldpwd |-> wd, printed |-> {"No such directory"}]

\* shell_cd(args) in directory wd with OLDPWD old
ShellCd(args, wd, old, bm, ds) ==
    IF CdTarget(args, old, bm).ok
    THEN Chdir(wd, CdTarget(args, old, bm).path, ds)
    ELSE [cwd |-> wd, oldpwd |-> old, printed |-> CdTarget(args, old, bm).printed]

\* the line "cd args" at the prompt, dispatched to shell_cd
Cd(args) ==
    /\ pc = "prompt"
    /\ Routed(<<"cd">> \o args, "builtin", "cd")
    /\ step' = Snapshot("cd", args, "ok", FALSE)
    /\ cwd' = ShellCd(args, cwd, oldpwd, bookmarks, dirs).cwd
    /\ oldpwd' = ShellCd(args, cwd, oldpwd, bookmarks, dirs).oldpwd
    /\ printed' = ShellCd(args, cwd, oldpwd, bookmarks, dirs).printed
    /\ UNCHANGED <<pc, plugin_dir, pending, loaded_plugins, reports, extended,
                   aliases, startupVars, storeVars, dirs>>
    /\ UNCHANGED promptVars

\* a directory other than the working directory is removed, by the remove
\* command or by another process
RemoveDir(d) ==
    /\ pc = "prompt"
    /\ d \in dirs \ {cwd}
    /\ dirs' = dirs \ {d}
    /\ step' = Snapshot("remove", <<d>>, "ok", FALSE)
    /\ printed' = {}
    /\ UNCHANGED <<routerVars, startupVars, storeVars, cwd, oldpwd>>
    /\ UNCHANGED promptVars

----------------------------------------------------------------------------
(* The configuration: config, CONFIG_FILE, get_prompt_parts *)

\* Python values: a bool ("True", "False"), a str, an int written in digits
PyBool(b) == [t |-> "bool", v |-> IF b THEN "True" ELSE "False"]

PyStr(x) == [t |-> "str", v |-> x]

PyInt(digits) == [t |-> "int", v |-> digits]

\* bool(x): False, the empty string and 0 are false
Truthy(x) ==
    CASE x.t = "bool" -> x.v = "True"
      [] x.t = "str" -> x.v # ""
      [] OTHER -> x.v # "0"

\* the options the prompt reads, and the theme
ConfigKeys == {"theme", "show_time", "show_git", "show_venv", "max_path_length"}

\* DEFAULT_CONFIG
DefaultConfig ==
    [theme |-> PyStr("default"), show_time |-> PyBool(TRUE),
     show_git |-> PyBool(TRUE), show_venv |-> PyBool(TRUE),
     max_path_length |-> PyInt("50")]

\* THEMES.keys()
THEMES == {"default", "dark", "matrix", "ocean", "sunset"}

\* json.dump of one value: a string is written in quotes, a bool as true
\* or false, an int in digits
JsonDump(x) ==
    [quoted |-> x.t = "str",
     lit |-> IF x.t = "bool" THEN (IF x.v = "True" THEN "true" ELSE "false")
             ELSE x.v]

\* json.load of one value
JsonLoad(j) ==
    IF j.quoted THEN PyStr(j.lit)
    ELSE IF j.lit \in {"true", "false"} THEN PyBool(j.lit = "true")
    ELSE PyInt(j.lit)

\* CONFIG_FILE: whether it holds a JSON object, and the object
ConfigFile(state, doc) == [state |-> state, doc |-> doc]

\* save_config(cfg); w: the write succeeds ("ok") or open raises ("denied"),
\* which is caught and reported
save_config(file, cfg, w) ==
    IF w = "ok"
    THEN [file |-> ConfigFile("json", [k \in DOMAIN cfg |-> JsonDump(cfg[k])]),
          failed |-> FALSE]
    ELSE [file |-> file, failed |-> TRUE]

\* load_config(): {**DEFAULT_CONFIG, **json.load(f)}, DEFAULT_CONFIG when
\* the file cannot be read or parsed
load_config(file) ==
    IF file.state = "json"
    THEN [k \in ConfigKeys |->
            IF k \in DOMAIN file.doc THEN JsonLoad(file.doc[k])
            ELSE DefaultConfig[k]]
    ELSE DefaultConfig

\* cmd_config_set(args): config[key] = value, the value being the token typed
cmd_config_set(args, cfg) ==
    IF Len(args) < 2 THEN [config |-> cfg, wrote |-> FALSE]
    ELSE [config |->
            [k \in DOMAIN cfg \cup {args[1]} |->
               IF k = args[1] THEN PyStr(args[2]) ELSE cfg[k]],
          wrote |-> TRUE]

\* cmd_theme(args): a known theme is stored and saved; nothing else is done
cmd_theme(args, cfg) ==
    IF args # <<>> /\ args[1] \in THEMES
    THEN [config |-> [cfg EXCEPT !.theme = PyStr(args[1])], wrote |-> TRUE]
    ELSE [config |-> cfg, wrote |-> FALSE]

\* get_prompt_parts(): the segments of the prompt.  len(cwd_display) >
\* max_length raises TypeError when max_length is no number
get_prompt_parts(cfg, cache) ==
    IF cfg.max_path_length.t # "int"
    THEN [outcome |-> "raised", parts |-> {}]
    ELSE [outcome |-> "returned",
          parts |-> {"path", "prompt_char"}
             \cup {x \in {"venv"} : Truthy(cfg.show_venv) /\ cache.venv # ""}
             \cup {x \in {"git"} :
                      Truthy(cfg.show_git) /\ cache.git_status # ""}
             \cup {x \in {"time"} : Truthy(cfg.show_time)}]

----------------------------------------------------------------------------
(* update_prompt_cache *)

\* PROMPT_CACHE as the module defines it; "None" stands for None
EmptyCache ==
    [cwd |-> "None", venv |-> "", git_status |-> "", git_dirty |-> FALSE,
     git_ahead |-> 0, git_behind |-> 0]

\* what the repository queries do.  repo: git.Repo(..) finds a repository
\* ("ok") or raises InvalidGitRepositoryError ("none"); branch: the name of
\* active_branch, or "detached" when the property raises TypeError; dirty:
\* is_dirty() returns ("clean", "dirty") or the git command fails with
\* GitCommandError ("error"); counts: whether both iter_commits succeed,
\* and their lengths
GitQueries ==
    {[repo |-> "none", branch |-> "main", dirty |-> "clean",
      counts |-> [ok |-> TRUE, ahead |-> 0, behind |-> 0]]}
    \cup {[repo |-> "ok", branch |-> "detached", dirty |-> "clean",
           counts |-> [ok |-> TRUE, ahead |-> 0, behind |-> 0]]}
    \cup {[repo |-> "ok", branch |-> "main", dirty |-> "error",
           counts |-> [ok |-> TRUE, ahead |-> 0, behind |-> 0]]}
    \cup {[repo |-> "ok", branch |-> "main", dirty |-> d,
           counts |-> [ok |-> TRUE, ahead |-> a, behind |-> b]] :
             d \in {"clean", "dirty"}, a \in 0..MaxCommits, b \in 0..MaxCommits}
    \cup {[repo |-> "ok", branch |-> "main", dirty |-> d,
           counts |-> [ok |-> FALSE, ahead |-> 0, behind |-> 0]] :
             d \in {"clean", "dirty"}}

\* the four git fields at their defaults
GitReset(cache) ==
    [cache EXCEPT !.git_status = "", !.git_dirty = FALSE,
                  !.git_ahead = 0, !.git_behind = 0]

\* update_prompt_cache() in directory wd with venv prefix v: the cache it
\* leaves and how it ends.  The outer except names InvalidGitRepositoryError
\* and TypeError only; the inner bare except covers the two iter_commits
update_prompt_cache(cache, wd, v, show_git, g) ==
    LET c == [cache EXCEPT !.cwd = wd, !.venv = v]
    IN  IF ~show_git THEN [cache |-> c, outcome |-> "returned"]
        ELSE IF g.repo = "none" \/ g.branch = "detached"
        THEN [cache |-> GitReset(c), outcome |-> "returned"]
        ELSE IF g.dirty = "error"
        THEN [cache |-> c, outcome |-> "raised"]
        ELSE [cache |->
                [c EXCEPT !.git_ahead = IF g.counts.ok THEN g.counts.ahead ELSE 0,
                          !.git_behind = IF g.counts.ok THEN g.counts.behind ELSE 0,
                          !.git_status = "git:(main)",
                          !.git_dirty = (g.dirty = "dirty")],
              outcome |-> "returned"]

\* no pass of the prompt loop yet
NoTurn ==
    [kind |-> "none", interrupted |-> FALSE, refreshed |-> FALSE,
     cwd |-> Home, cached |-> "None"]

NoRefresh ==
    [called |-> FALSE, outcome |-> "none",
     g |-> [repo |-> "none", branch |-> "main", dirty |-> "clean",
            counts |-> [ok |-> TRUE, ahead |-> 0, behind |-> 0]]]

\* main() calls update_prompt_cache before the loop (the cache holds no
\* directory yet) and after a command that left another working directory;
\* no except clause of main() catches what it raises
UpdatePromptCache(g, v) ==
    /\ pc = "prompt"
    /\ prompt_cache.cwd # cwd
    /\ LET u == update_prompt_cache(prompt_cache, cwd, v, Truthy(config.show_git), g)
       IN  /\ prompt_cache' = u.cache
           /\ refresh' = [called |-> TRUE, outcome |-> u.outcome, g |-> g]
           /\ pc' = IF u.outcome = "raised" THEN "crashed" ELSE "prompt"
    /\ UNCHANGED <<plugin_dir, pending, loaded_plugins, reports, extended,
                   aliases, last, startupVars, storeVars, dirVars, step,
                   config, config_file, turn, sessionVars, printed>>

\* the line "config_set args" at the prompt, dispatched to cmd_config_set;
\* the loop then shows the prompt, which calls get_prompt_parts, and no
\* except clause of main() catches a TypeError
ConfigSet(args, w) ==
    /\ pc = "prompt"
    /\ Routed(<<"config_set">> \o args, "extended", "config_set")
    /\ LET c == cmd_config_set(args, config)
           sv == save_config(config_file, c.config, w)
       IN  /\ config' = c.config
           /\ IF c.wrote
              THEN /\ config_file' = sv.file
                   /\ printed' = {m \in {"Failed to save config"} : sv.failed}
              ELSE /\ w = "ok"
                   /\ UNCHANGED config_file
                   /\ printed' = {"Usage: config_set <key> <value>"}
           /\ pc' = IF get_prompt_parts(c.config, prompt_cache).outcome = "raised"
                    THEN "crashed" ELSE "prompt"
    /\ UNCHANGED <<plugin_dir, pending, loaded_plugins, reports, extended,
                   aliases, startupVars, storeVars, dirVars, step,
                   prompt_cache, refresh, turn, sessionVars>>

\* the shell is started again: main() calls load_config() and shows the
\* prompt
LoadConfig ==
    /\ pc \in {"prompt", "crashed"}
    /\ config' = load_config(config_file)
    /\ pc' = IF get_prompt_parts(load_config(config_file), prompt_cache).outcome
                  = "raised"
             THEN "crashed" ELSE "prompt"
    /\ last' = NoCall
    /\ printed' = {}
    /\ UNCHANGED <<plugin_dir, pending, loaded_plugins, reports, extended,
                   aliases, startupVars, storeVars, dirVars, step,
                   config_file, prompt_cache, refresh, turn, sessionVars>>

----------------------------------------------------------------------------
(* main(): the prompt loop with the prompt cache *)

\* the body of the loop after execute_command: the comparison of the cached
\* directory with os.getcwd() is skipped when KeyboardInterrupt left the try
\* block
CacheCheck(interrupted, cached, wd) == ~interrupted /\ cached # wd

\* the rest of a pass of the loop after a command of this kind left the
\* working directory wd
LoopTail(kind, interrupted, wd, cfg, g, v) ==
    LET check == CacheCheck(interrupted, prompt_cache.cwd, wd)
        u == update_prompt_cache(prompt_cache, wd, v, Truthy(cfg.show_git), g)
    IN  /\ turn' = [kind |-> kind, interrupted |-> interrupted,
                    refreshed |-> check, cwd |-> cwd,
                    cached |-> prompt_cache.cwd]
        /\ prompt_cache' = IF check THEN u.cache ELSE prompt_cache
        /\ refresh' = IF check
                      THEN [called |-> TRUE, outcome |-> u.outcome, g |-> g]
                      ELSE refresh
        /\ pc' = IF check /\ u.outcome = "raised" THEN "crashed" ELSE "prompt"

\* main() between load_plugins and the loop, no startup script:
\* update_prompt_cache() is called whatever the cache holds
EnterLoop(g, v) ==
    /\ pc = "load"
    /\ pending = {}
    /\ ~startup_script.exists
    /\ LET u == update_prompt_cache(prompt_cache, cwd, v,
                                    Truthy(config.show_git), g)
       IN  /\ prompt_cache' = u.cache
           /\ refresh' = [called |-> TRUE, outcome |-> u.outcome, g |-> g]
           /\ pc' = IF u.outcome = "raised" THEN "crashed" ELSE "prompt"
    /\ turn' = [kind |-> "startup", interrupted |-> FALSE, refreshed |-> TRUE,
                cwd |-> cwd, cached |-> prompt_cache.cwd]
    /\ UNCHANGED <<plugin_dir, pending, loaded_plugins, reports, extended,
                   aliases, last, startupVars, storeVars, dirVars, step,
                   config, config_file, sessionVars, printed>>

\* a pass of the loop with the line "cd args"
LoopCd(args, g, v) ==
    /\ pc = "prompt"
    /\ Routed(<<"cd">> \o args, "builtin", "cd")
    /\ step' = Snapshot("cd", args, "ok", FALSE)
    /\ LET r == ShellCd(args, cwd, oldpwd, bookmarks, dirs)
       IN  /\ cwd' = r.cwd
           /\ oldpwd' = r.oldpwd
           /\ printed' = r.printed
           /\ LoopTail("cd", FALSE, r.cwd, config, g, v)
    /\ UNCHANGED <<plugin_dir, pending, loaded_plugins, reports, extended,
                   aliases, startupVars, storeVars, dirs, config, config_file,
                   sessionVars>>

\* a pass of the loop with the line "mkcd name": os.makedirs, shell_cd,
\* echo_success; mk as in cmd_mkcd
LoopMkcd(name, mk, g, v) ==
    /\ pc = "prompt"
    /\ last' = execute_command(aliases, extended, loaded_plugins,
                               <<"mkcd", name>>,
                               [res |-> [p \in Range(loaded_plugins) |-> "false"],
                                mk |-> mk, ps |-> "found"])
    /\ last'.stage = "extended"
    /\ step' = Snapshot("mkcd", <<name>>, "ok", FALSE)
    /\ IF mk = "oserror"
       THEN /\ printed' = {"Could not create directory"}
            /\ UNCHANGED dirVars
            /\ LoopTail("mkcd", FALSE, cwd, config, g, v)
       ELSE LET made == dirs \cup {AbsPath(cwd, name)}
                r == ShellCd(<<name>>, cwd, oldpwd, bookmarks, made)
            IN  /\ dirs' = made
                /\ cwd' = r.cwd
                /\ oldpwd' = r.oldpwd
                /\ printed' = r.printed
                /\ LoopTail("mkcd", mk = "interrupt", r.cwd, config, g, v)
    /\ UNCHANGED <<plugin_dir, pending, loaded_plugins, reports, extended,
                   aliases, startupVars, storeVars, config, config_file,
                   sessionVars>>

\* a pass of the loop with the line "theme args"
LoopTheme(args, g, v) ==
    /\ pc = "prompt"
    /\ Routed(<<"theme">> \o args, "extended", "theme")
    /\ LET c == cmd_theme(args, config)
       IN  /\ config' = c.config
           /\ config_file' = IF c.wrote
                             THEN save_config(config_file, c.config, "ok").file
                             ELSE config_file
           /\ printed' = {m \in {"Unknown theme"} : args # <<>> /\ ~c.wrote}
           /\ LoopTail("theme", FALSE, cwd, c.config, g, v)
    /\ UNCHANGED <<plugin_dir, pending, loaded_plugins, reports, extended,
                   aliases, startupVars, storeVars, dirVars, step, sessionVars>>

----------------------------------------------------------------------------
(* src/main.py: execute_command and run_system_command of that version *)

\* BUILTIN_COMMANDS of src/main.py
MainPyBuiltins == {"cd", "exit", "quit"}

\* the names of app.registered_commands
MainPyCommands == {"search", "tree", "mkcd", "serve", "pwgen", "myip"}

\* run_system_command of src/main.py: CalledProcessError and Exception are
\* caught, KeyboardInterrupt is not
run_system_command_main_py(command, al, ps) ==
    Ran(<<Call("external", "powershell", command, ExternalResult(ps),
               "execute_command")>>,
        IF ps = "interrupt" THEN "interrupted" ELSE "returned", al)

\* what run_system_command of src/main.py prints: echo_error for a missing
\* interpreter, for a non-zero exit status and for an unexpected exception
SystemCommandPrintedMainPy(ps) ==
    CASE ps = "missing" -> {"PowerShell executable not found"}
      [] ps = "nonzero" -> {"Command failed with a non-zero exit code"}
      [] ps = "oserror" -> {"An unexpected error occurred"}
      [] OTHER -> {}

\* execute_command of src/main.py for a line that is no builtin.  tp: what
\* the typer application does with a registered command: it runs ("ok"),
\* ends with BadParameter or SystemExit ("exit"), or raises another
\* exception ("raise"), after which the interpreter is asked
execute_command_main_py(command, tp, ps) ==
    LET name == Lower(Head(command))
        typer == Call("extended", name, Tail(command), tp, "execute_command")
        r == run_system_command_main_py(command, EmptyStore, ps)
    IN  IF name \in MainPyCommands /\ tp # "raise"
        THEN [NoCall EXCEPT !.line = command, !.cmd = command,
                            !.stage = "extended", !.calls = <<typer>>,
                            !.outcome = "returned"]
        ELSE [NoCall EXCEPT !.line = command, !.cmd = command,
                            !.stage = "chain",
                            !.calls = IF name \in MainPyCommands
                                      THEN <<typer>> \o r.calls ELSE r.calls,
                            !.outcome = r.outcome]

\* a pass of the loop of src/main.py with a line that is no builtin; an
\* interrupt is caught by the loop, which shows the next prompt
MainPyLine(line, tp, ps) ==
    /\ pc = "prompt"
    /\ ncalls < MaxCalls
    /\ Lower(Head(line)) \notin MainPyBuiltins
    /\ last' = execute_command_main_py(line, tp, ps)
    /\ ncalls' = ncalls + 1
    /\ printed' = IF last'.stage = "chain"
                  THEN SystemCommandPrintedMainPy(ps) ELSE {}
    /\ UNCHANGED <<pc, plugin_dir, pending, loaded_plugins, reports, extended,
                   aliases, startup_script, script_left, command_history>>
    /\ UNCHANGED beyondStartup

----------------------------------------------------------------------------
(* DeviShellCompleter.  A str is a sequence of characters here. *)

\* the characters of the model in the order of their code points
CodePoints ==
    <<" ", ".", "/", "@", "A", "D", "E", "M", "R", "S", "W", "a", "c", "d",
      "e", "f", "h", "i", "m", "n", "o", "r", "s", "t", "u", "v", "w", "x",
      "y", "~">>

Code(c) == CHOOSE i \in DOMAIN CodePoints : CodePoints[i] = c

\* c.lower()
LowerChar(c) ==
    CASE c = "A" -> "a" [] c = "D" -> "d" [] c = "E" -> "e" [] c = "M" -> "m"
      [] c = "R" -> "r" [] c = "S" -> "s" [] c = "W" -> "w" [] OTHER -> c

\* str.lower()
LowerStr(w) == [i \in DOMAIN w |-> LowerChar(w[i])]

\* w.startswith(p)
startswith(w, p) == Len(p) <= Len(w) /\ SubSeq(w, 1, Len(p)) = p

RECURSIVE Before(_, _)
\* a < b for two str
Before(a, b) ==
    IF a = <<>> THEN b # <<>>
    ELSE IF b = <<>> THEN FALSE
    ELSE IF Head(a) = Head(b) THEN Before(Tail(a), Tail(b))
    ELSE Code(Head(a)) < Code(Head(b))

RECURSIVE sorted(_)
\* sorted(list(set(..))) of a set of str
sorted(S) ==
    IF S = {} THEN <<>>
    ELSE LET m == CHOOSE x \in S : \A y \in S \ {x} : Before(x, y)
         IN  <<m>> \o sorted(S \ {m})

RECURSIVE SplitText(_)
\* text.split(): the maximal runs of characters that are no whitespace
SplitText(text) ==
    IF text = <<>> THEN <<>>
    ELSE IF Head(text) = " " THEN SplitText(Tail(text))
    ELSE LET k == CHOOSE k \in 1..Len(text) :
                     /\ \A i \in 1..k : text[i] # " "
                     /\ k = Len(text) \/ text[k + 1] = " "
         IN  <<SubSeq(text, 1, k)>> \o SplitText(SubSeq(text, k + 1, Len(text)))

\* the characters of the names the stores of the model hold
Spell(t) ==
    CASE t = "Sea" -> <<"S", "e", "a">>
      [] t = "cs" -> <<"c", "s">>
      [] t = "we" -> <<"w", "e">>
      [] t = "Wa" -> <<"W", "a">>
      [] t = Home -> <<"/", "h", "o", "m", "e", "/", "u">>
      [] OTHER -> <<t>>

\* list(BUILTIN_COMMANDS.keys()) + list(EXTENDED_COMMANDS.keys()), with a
\* name that both registries hold
AllCommands ==
    <<<<"c", "d">>, <<"t", "h", "e", "m", "e">>, <<"s", "e", "a", "r", "c", "h">>,
      <<"s", "e", "r", "v", "e">>,
      <<"s", "y", "s", "i", "n", "f", "o">>, <<"c", "d">>>>

\* unique_sorted_commands, the list the completer is built with
SessionCommands == sorted(Range(AllCommands))

\* the file system the completer looks at: the working directory "." with
\* two files and a directory, /a with a file, /d whose listing is refused
README == <<"R", "E", "A", "D", "M", "E", ".", "m", "d">>

Readme == <<"r", "e", "a", "d", "m", "e", ".", "t", "x", "t">>

Src == <<"s", "r", "c">>

\* os.path.isdir(p)
IsDirPath(p) ==
    p \in {<<".">>, <<".", "/">> \o Src, <<"/", "a">>, <<"/", "d">>,
           Spell(Home)}

\* the names os.listdir(p) returns
TreeEntries(p) ==
    CASE p = <<".">> -> {README, Readme, Src}
      [] p = <<"/", "a">> -> {Readme}
      [] OTHER -> {}

\* os.listdir(p) raises PermissionError
ListDenied(p) == p = <<"/", "d">>

\* os.path.expanduser(p)
expanduser(p) ==
    IF p # <<>> /\ Head(p) = "~" /\ (Len(p) = 1 \/ p[2] = "/")
    THEN Spell(Home) \o Tail(p)
    ELSE p

\* os.path.split(p): the part before the last slash and the part after it
path_split(p) ==
    IF \A i \in DOMAIN p : p[i] # "/" THEN [head |-> <<>>, tail |-> p]
    ELSE LET i == CHOOSE i \in DOMAIN p :
                     p[i] = "/" /\ \A j \in DOMAIN p : j > i => p[j] # "/"
         IN  [head |-> IF i = 1 THEN <<"/">> ELSE SubSeq(p, 1, i - 1),
              tail |-> SubSeq(p, i + 1, Len(p))]

\* os.path.join(a, b)
path_join(a, b) == IF a[Len(a)] = "/" THEN a \o b ELSE a \o <<"/">> \o b

\* Completion(text, start_position=-start, display=display)
Completion(text, start, display) ==
    [text |-> text, start |-> start, display |-> display]

\* the sequences that hold every element of S once
Orders(S) ==
    {o \in [1..Cardinality(S) -> S] : \A i, j \in DOMAIN o : i # j => o[i] # o[j]}

\* the keys of a store in the order order gives them
KeysIn(store, order) ==
    LET Held(n) == n \in DOMAIN store IN SelectSeq(order, Held)

\* the branch of get_completions for the command position
CompleteCommand(current_word, commands, alias_names, bookmark_names) ==
    LET Matches(n) == startswith(LowerStr(n), LowerStr(current_word))
        MatchesRef(n) == startswith(LowerStr(Spell(n)),
                                    LowerStr(Tail(current_word)))
        MatchesAlias(n) == Matches(Spell(n))
        cs == SelectSeq(commands, Matches)
        as == SelectSeq(alias_names, MatchesAlias)
        bs == IF Head(current_word) = "@"
              THEN SelectSeq(bookmark_names, MatchesRef) ELSE <<>>
    IN  [i \in DOMAIN cs |-> Completion(cs[i], Len(current_word), cs[i])]
        \o [i \in DOMAIN as |->
              Completion(Spell(as[i]), Len(current_word),
                         Spell(as[i]) \o <<" (alias)">>)]
        \o [i \in DOMAIN bs |->
              Completion(<<"@">> \o Spell(bs[i]), Len(current_word),
                         <<"@">> \o Spell(bs[i]))]

\* the branch of get_completions for an argument: the entries of the
\* directory part of the word; except (OSError, IndexError): pass
CompletePath(current_word, listing) ==
    LET parts == path_split(expanduser(current_word))
        path_prefix == IF parts.head = <<>> THEN <<".">> ELSE parts.head
        partial_name == parts.tail
        Listed(e) == e \in TreeEntries(path_prefix)
        Matches(e) == Listed(e) /\ startswith(LowerStr(e), LowerStr(partial_name))
        es == SelectSeq(listing, Matches)
    IN  IF ~IsDirPath(path_prefix) \/ ListDenied(path_prefix) THEN <<>>
        ELSE [i \in DOMAIN es |->
                Completion(es[i], Len(partial_name),
                           IF IsDirPath(path_join(path_prefix, es[i]))
                           THEN es[i] \o <<"/">> ELSE es[i])]

\* get_completions(document, complete_event): text_before_cursor is
\* assigned document.text, the whole input line
get_completions(doc, commands, alias_names, bookmark_names, listing) ==
    LET text_before_cursor == doc.text
        words == SplitText(text_before_cursor)
    IN  IF text_before_cursor = <<>>
           \/ text_before_cursor[Len(text_before_cursor)] = " "
        THEN <<>>
        ELSE IF Len(words) = 1
        THEN CompleteCommand(words[Len(words)], commands, alias_names,
                             bookmark_names)
        ELSE CompletePath(words[Len(words)], listing)

\* an empty input line
NoDocument == [text |-> <<>>, cursor |-> 0]

\* no completion asked for yet
NotAsked == [asked |-> FALSE, items |-> <<>>]

\* the user asks for completions of the input line.  The dicts and
\* os.listdir yield their entries in an order the model does not fix
Complete ==
    /\ pc = "prompt"
    /\ ~completions.asked
    /\ \E ao \in Orders({"Sea", "cs"}), bo \in Orders({"we", "Wa"}),
          lo \in Orders({README, Readme, Src}) :
          completions' =
              [asked |-> TRUE,
               items |-> get_completions(document, SessionCommands,
                                         KeysIn(aliases, ao),
                                         KeysIn(bookmarks, bo), lo)]
    /\ UNCHANGED <<routerVars, startupVars, storeVars, dirVars, step, config,
                   config_file, prompt_cache, refresh, turn, document, printed>>

----------------------------------------------------------------------------
(* Input lines *)

CmdLines(firsts, toks) == {<<c>> \o a : c \in firsts, a \in ArgLists(toks)}

AliasNames == {"ll", "LL", "gs"}

\* the expansions a user gives to the alias command
Expansions == {<<"cd">>, <<"gs", "x">>, <<"ll">>}

AliasCommandLines ==
    {<<"alias", n>> \o e : n \in AliasNames, e \in Expansions}
    \cup {<<"unalias", n>> : n \in AliasNames}
    \cup {<<"alias">>, <<"unalias">>}

\* the lines of the router specification
Lines ==
    CmdLines({"cd", "CD", "exit", "mkcd", "ll", "frob"}, {"x"})
    \cup CmdLines({"port_scan"}, {"x", "7"})
    \cup {<<"alias", "ll", "cd">>, <<"alias", "ll", "frob", "x">>,
          <<"unalias", "ll">>}

\* the lines of the alias specification
AliasLines ==
    CmdLines({"ll", "LL", "gs", "cd", "frob"}, {"x"}) \cup AliasCommandLines

Dirs == {d \in SUBSET PluginCatalogue : Cardinality(d) <= MaxPlugins}

\* the raw lines of a startup script: a blank line, a comment, a command
\* after leading blanks, a command whose handler raises, exit
RawLines ==
    {<<" ">>, <<"#c", " ", "frob">>, <<" ", "frob">>,
     <<"port_scan", " ", "x", " ", "x">>, <<"exit">>}

Scripts ==
    {NoScript}
    \cup {ScriptFile(l) : l \in UNION {[1..n -> RawLines] : n \in 0..MaxScript}}

\* the states in which main() finds ALIASES_FILE
AliasFiles ==
    {MissingFile, UnreadableFile, CorruptFile, ObjectFile(<<>>),
     ObjectFile(<<<<"gs", <<"ll">>>>, <<"ll", <<"cd">>>>>>)}

\* the states in which main() finds BOOKMARKS_FILE
BookmarkFiles ==
    {MissingFile, CorruptFile, ObjectFile(<<>>), ObjectFile(<<<<"w", "/b">>>>)}

WriteOutcomes == {"ok", "denied", "partial"}

\* the lines of the store specification
StoreLines ==
    {<<"alias", "ll", "cd", "x">>, <<"alias", "gs", "ll">>,
     <<"unalias", "ll">>, <<"ll">>}

\* the arguments given to bookmark and to unbookmark
BookmarkArgs == {<<"w">>, <<"w", "/f">>}

UnbookmarkArgs == {<<"w">>}

\* the arguments of the directory specification
CdArgs ==
    {<<>>, <<"-">>, <<"@w">>, <<"@d">>, <<"/a">>, <<"sub">>, <<"/gone">>,
     <<"/f">>}

CdBookmarkArgs == {<<>>, <<"w">>, <<"w", "sub">>, <<"w", "/b">>, <<"w", "/f">>}

CdUnbookmarkArgs == {<<>>, <<"w">>, <<"d">>}

\* the directories that may go away
Removable == {"/b", "/a/sub"}

\* the lines typed after the startup script
StartupLines ==
    {<<"alias", "ll", "port_scan", "x", "x">>, <<"ll">>, <<"frob">>}

\* config_set lines: a flag or the path length, set to a word or a number
ConfigSetArgs ==
    {<<k, x>> : k \in {"show_time", "show_git", "show_venv", "max_path_length"},
                x \in {"false", "10"}}
    \cup {<<"show_git">>}

\* the lines and repository answers of the loop specification
LoopCdArgs == {<<>>, <<"/a">>, <<"/gone">>}

LoopMkcdNames == {"/a", "/n"}

MkcdOutcomes == {"ok", "oserror", "interrupt"}

LoopThemeArgs == {<<>>, <<"dark">>, <<"neon">>}

LoopQueries ==
    {g \in GitQueries :
        /\ g.dirty = "clean"
        /\ g.branch = "main"
        /\ g.counts = [ok |-> TRUE, ahead |-> 0, behind |-> 0]}

\* what the interpreter does
ExternalOutcomes == {"found", "missing", "nonzero", "interrupt", "oserror"}

\* lines for the interpreter, typed or reached through the alias ll
ExternalLines == {<<"frob">>, <<"ll", "x">>}

\* the one alias the external specification defines
ExternalAliasLines == {<<"alias", "ll", "frob">>}

\* lines typed into src/main.py, and what the typer application does
MainPyLines == {<<"frob">>, <<"frob", "x">>, <<"ls">>, <<"myip">>}

TyperOutcomes == {"ok", "exit", "raise"}

\* alias names that are also command names, and the lines that define and
\* remove them
ShadowNames == {"ll", "unalias", "alias", "cd"}

ShadowLines ==
    {<<"alias", n, "frob">> : n \in ShadowNames}
    \cup {<<"unalias", n>> : n \in ShadowNames}

\* the input lines the completer is asked about
Texts ==
    {<<"s", "e">>,
     <<"S", "E">>,
     <<"s">>,
     <<"s", "y">>,
     <<"x">>,
     <<"@">>,
     <<"@", "w">>,
     <<"@", "W">>,
     <<"s", "e", " ">>,
     <<" ", "s", "e">>,
     <<"s", "e", " ", "x">>,
     <<"c", "d", " ", "R", "e", "a", "d">>,
     <<"c", "d", " ", "R", "e">>,
     <<"c", "d", " ", "s">>,
     <<"c", "d", " ", "/", "a", "/", "r">>,
     <<"c", "d", " ", "/", "d", "/", "r">>,
     <<"c", "d", " ", "/", "f", "/", "x">>,
     <<"c", "d", " ", "~", "/", "r">>,
     <<"c", "d", " ", "R", "e", "a", "d", " ">>}

\* an input line with the cursor anywhere in it
Documents == {[text |-> t, cursor |-> c] : t \in Texts, c \in 0..MaxCursor}

\* the alias and bookmark files the completer specification starts from
CompleterAliasFiles ==
    {ObjectFile(<<>>), ObjectFile(<<<<"Sea", <<"cd">>>>, <<"cs", <<"cd">>>>>>)}

CompleterBookmarkFiles ==
    {ObjectFile(<<>>), ObjectFile(<<<<"we", "/a">>, <<"Wa", "/b">>>>)}

----------------------------------------------------------------------------
(* Specifications *)

\* no startup script, an empty history
InitStartup ==
    /\ startup_script = NoScript
    /\ script_left = <<>>
    /\ command_history = <<>>
    /\ ncalls = 0

\* the files as ensure_config_dir creates them, empty stores
InitStores ==
    /\ alias_file = ObjectFile(<<>>)
    /\ bookmark_file = ObjectFile(<<>>)
    /\ bookmarks = EmptyStore

InitDirs ==
    /\ cwd = Home
    /\ oldpwd = ""
    /\ dirs = Directories

NoStep ==
    [op |-> "none", args |-> <<>>, w |-> "ok", wrote |-> FALSE,
     aliases |-> EmptyStore, alias_file |-> ObjectFile(<<>>),
     bookmarks |-> EmptyStore, bookmark_file |-> ObjectFile(<<>>),
     cwd |-> Home, oldpwd |-> "", dirs |-> Directories]

\* DEFAULT_CONFIG, an untouched cache
InitPrompt ==
    /\ config = DefaultConfig
    /\ config_file = save_config(ConfigFile("missing", <<>>), DefaultConfig,
                                "ok").file
    /\ turn = NoTurn
    /\ document = NoDocument
    /\ completions = NotAsked
    /\ prompt_cache = EmptyCache
    /\ refresh = NoRefresh

InitShell ==
    /\ InitStartup
    /\ InitStores
    /\ InitDirs
    /\ InitPrompt
    /\ step = NoStep
    /\ printed = {}

InitRouter(plugin_dirs) ==
    /\ plugin_dir \in plugin_dirs
    /\ pending = plugin_dir
    /\ loaded_plugins = <<>>
    /\ reports = {}
    /\ extended = ExtendedNames
    /\ aliases = EmptyStore
    /\ last = NoCall

InitIn(plugin_dirs) == pc = "load" /\ InitRouter(plugin_dirs) /\ InitShell

Init == InitIn(Dirs)

Next ==
    \/ \E f \in PluginCatalogue : LoadPlugin(f)
    \/ StartPrompt
    \/ \E line \in Lines : MainLoopLine(line)
    \/ MainLoopEOF

Spec == Init /\ [][Next]_vars

\* the alias store in full, with one plugin directory
InitAlias == InitIn({{"good"}})

NextAlias ==
    \/ \E f \in PluginCatalogue : LoadPlugin(f)
    \/ StartPrompt
    \/ \E line \in AliasLines : MainLoopLine(line)
    \/ MainLoopEOF

SpecAlias == InitAlias /\ [][NextAlias]_vars

\* the startup script and the history, with an empty plugin directory
InitScript ==
    /\ pc = "load"
    /\ InitRouter({{}})
    /\ startup_script \in Scripts
    /\ script_left = <<>>
    /\ command_history = <<>>
    /\ ncalls = 0
    /\ InitStores
    /\ InitDirs
    /\ InitPrompt
    /\ step = NoStep
    /\ printed = {}

NextStartup ==
    \/ StartPrompt
    \/ StartScript
    \/ ScriptLine
    \/ EndScript
    \/ \E line \in StartupLines : MainLoopRecorded(line)

SpecStartup == InitScript /\ [][NextStartup]_vars

\* the alias and bookmark stores and their files, from the start of main()
InitStore ==
    /\ pc = "boot"
    /\ InitRouter({{}})
    /\ InitStartup
    /\ \/ alias_file \in AliasFiles /\ bookmark_file = ObjectFile(<<>>)
       \/ alias_file = ObjectFile(<<>>) /\ bookmark_file \in BookmarkFiles
    /\ bookmarks = EmptyStore
    /\ InitDirs
    /\ InitPrompt
    /\ step = NoStep
    /\ printed = {}

NextStore ==
    \/ \E w \in {"ok", "denied"} : Boot(w)
    \/ StartPrompt
    \/ \E line \in StoreLines, w \in WriteOutcomes : MainLoopSaved(line, w)
    \/ \E args \in BookmarkArgs, w \in {"ok", "denied"} : Bookmark(args, w)
    \/ \E args \in UnbookmarkArgs, w \in {"ok", "denied"} : Unbookmark(args, w)

SpecStore == InitStore /\ [][NextStore]_vars

\* the working directory, OLDPWD and the bookmarks; OLDPWD may come from
\* the environment the shell was started in
InitCd ==
    /\ pc = "load"
    /\ InitRouter({{}})
    /\ InitStartup
    /\ InitStores
    /\ cwd = Home
    /\ oldpwd \in {"", "/b"}
    /\ dirs = Directories
    /\ InitPrompt
    /\ step = NoStep
    /\ printed = {}

NextCd ==
    \/ StartPrompt
    \/ \E args \in CdArgs : Cd(args)
    \/ \E args \in CdBookmarkArgs : Bookmark(args, "ok")
    \/ \E args \in CdUnbookmarkArgs : Unbookmark(args, "ok")
    \/ \E d \in Removable : RemoveDir(d)

SpecCd == InitCd /\ [][NextCd]_vars

\* the prompt cache across directory changes, show_git on or off
InitCache ==
    /\ pc = "load"
    /\ InitRouter({{}})
    /\ InitStartup
    /\ InitStores
    /\ InitDirs
    /\ config \in {[DefaultConfig EXCEPT !.show_git = PyBool(b)] : b \in BOOLEAN}
    /\ config_file = save_config(ConfigFile("missing", <<>>), config, "ok").file
    /\ turn = NoTurn
    /\ document = NoDocument
    /\ completions = NotAsked
    /\ prompt_cache = EmptyCache
    /\ refresh = NoRefresh
    /\ step = NoStep
    /\ printed = {}

NextCache ==
    \/ StartPrompt
    \/ \E args \in {<<>>, <<"/a">>, <<"/gone">>} : Cd(args)
    \/ \E g \in GitQueries, v \in {"", "(venv) "} : UpdatePromptCache(g, v)

SpecCache == InitCache /\ [][NextCache]_vars

\* the configuration across config_set lines and restarts; the cache is the
\* one the startup call leaves inside a repository with a virtual
\* environment active
InitConfig ==
    /\ pc = "prompt"
    /\ InitRouter({{}})
    /\ InitStartup
    /\ InitStores
    /\ InitDirs
    /\ config = DefaultConfig
    /\ config_file = save_config(ConfigFile("missing", <<>>), DefaultConfig,
                                "ok").file
    /\ prompt_cache =
          update_prompt_cache(EmptyCache, Home, "(venv) ", TRUE,
                              [repo |-> "ok", branch |-> "main",
                               dirty |-> "clean",
                               counts |-> [ok |-> TRUE, ahead |-> 0,
                                           behind |-> 0]]).cache
    /\ refresh = NoRefresh
    /\ turn = NoTurn
    /\ document = NoDocument
    /\ completions = NotAsked
    /\ step = NoStep
    /\ printed = {}

NextConfig ==
    \/ \E args \in ConfigSetArgs, w \in {"ok", "denied"} : ConfigSet(args, w)
    \/ LoadConfig

SpecConfig == InitConfig /\ [][NextConfig]_vars

\* the prompt loop and the prompt cache
InitLoop ==
    /\ pc = "load"
    /\ InitRouter({{}})
    /\ InitShell

NextLoop ==
    \/ \E g \in LoopQueries : EnterLoop(g, "")
    \/ \E args \in LoopCdArgs, g \in LoopQueries : LoopCd(args, g, "")
    \/ \E name \in LoopMkcdNames, mk \in MkcdOutcomes, g \in LoopQueries :
          LoopMkcd(name, mk, g, "")
    \/ \E args \in LoopThemeArgs, g \in LoopQueries : LoopTheme(args, g, "")

SpecLoop == InitLoop /\ [][NextLoop]_vars

\* the interpreter fallback: a plugin directory with or without a plugin
\* that declines every line, the history followed
InitExternal ==
    /\ pc = "load"
    /\ InitRouter({{}, {"good"}})
    /\ InitShell

NextExternal ==
    \/ \E f \in PluginCatalogue : LoadPlugin(f)
    \/ StartPrompt
    \/ \E line \in ExternalAliasLines : MainLoopRecorded(line)
    \/ \E line \in ExternalLines, ps \in ExternalOutcomes :
          MainLoopExternal(line, ps)

SpecExternal == InitExternal /\ [][NextExternal]_vars

\* src/main.py at its prompt
InitMainPy ==
    /\ pc = "prompt"
    /\ InitRouter({{}})
    /\ InitShell

NextMainPy ==
    \E line \in MainPyLines, tp \in TyperOutcomes, ps \in ExternalOutcomes :
        MainPyLine(line, tp, ps)

SpecMainPy == InitMainPy /\ [][NextMainPy]_vars

\* aliases named like commands
InitShadow == InitIn({{}})

NextShadow ==
    \/ StartPrompt
    \/ \E line \in ShadowLines : MainLoopLine(line)

SpecShadow == InitShadow /\ [][NextShadow]_vars

\* the completer asked once about an input line, the stores as loaded
InitComplete ==
    /\ pc = "prompt"
    /\ plugin_dir = {}
    /\ pending = {}
    /\ loaded_plugins = <<>>
    /\ reports = {}
    /\ extended = ExtendedNames
    /\ last = NoCall
    /\ InitStartup
    /\ alias_file \in CompleterAliasFiles
    /\ bookmark_file \in CompleterBookmarkFiles
    /\ aliases = LoadStore(alias_file).store
    /\ bookmarks = LoadStore(bookmark_file).store
    /\ InitDirs
    /\ config = DefaultConfig
    /\ config_file = save_config(ConfigFile("missing", <<>>), DefaultConfig,
                                "ok").file
    /\ prompt_cache = EmptyCache
    /\ refresh = NoRefresh
    /\ turn = NoTurn
    /\ document \in {d \in Documents : d.cursor <= Len(d.text)}
    /\ completions = NotAsked
    /\ step = NoStep
    /\ printed = {}

NextComplete == Complete

SpecComplete == InitComplete /\ [][NextComplete]_vars

----------------------------------------------------------------------------
(* Properties *)

\* an executor that handled the line: a builtin or extended handler, the
\* external interpreter, or a plugin whose handle_command returned true
Handled(c) ==
    \/ c.kind \in {"builtin", "extended", "external"}
    \/ c.kind = "plugin" /\ c.result = "true"

HandlerCalls(calls) == {i \in DOMAIN calls : Handled(calls[i])}

IsPluginCall(c) == c.kind = "plugin"

\* C1, as stated: in every call of execute_command that returns, exactly
\* one executor runs, and no two of them run for the same call.
C1_ExactlyOneExecutorRuns ==
    (last.line # <<>> /\ last.outcome = "returned")
        => Cardinality(HandlerCalls(last.calls)) = 1

\* C1, amended: in every call of execute_command that returns, exactly one
\* executor is invoked by execute_command itself; the only other executor
\* that runs is the builtin handler shell_cd, called by the extended handler
\* cmd_mkcd after it created the directory.
C1_ExactlyOneExecutorDispatched ==
    (last.line # <<>> /\ last.outcome = "returned")
        => /\ Cardinality({i \in HandlerCalls(last.calls) :
                               last.calls[i].by = "execute_command"}) = 1
           /\ \A i \in HandlerCalls(last.calls) :
                  last.calls[i].by # "execute_command"
                     => /\ i = 2
                        /\ last.calls[1] =
                              Call("extended", "mkcd", Tail(last.cmd), "ok",
                                   "execute_command")
                        /\ last.calls[2] =
                              Call("builtin", "cd", <<last.cmd[2]>>, "ok",
                                   "cmd_mkcd")

\* C1 witness: a call that returned after one plugin declined the line and
\* a later plugin handled it.
C1_Witness ==
    /\ last.outcome = "returned"
    /\ \E i, j \in DOMAIN last.calls :
          /\ i < j
          /\ last.calls[i].kind = "plugin" /\ last.calls[i].result = "false"
          /\ last.calls[j].kind = "plugin" /\ last.calls[j].result = "true"

\* C2: a line whose first token after the alias check, lowercased, is a
\* builtin name runs the builtin handler of that name with the remaining
\* tokens and nothing else: no extended handler, no plugin, no interpreter.
C2_BuiltinShadows ==
    (last.line # <<>> /\ Lower(Head(last.cmd)) \in BuiltinNames)
        => /\ Len(last.calls) = 1
           /\ last.calls[1].kind = "builtin"
           /\ last.calls[1].name = Lower(Head(last.cmd))
           /\ last.calls[1].args = Tail(last.cmd)
           /\ last.calls[1].by = "execute_command"

\* C2 witness: an alias led to the builtin cd while an extended command is
\* registered under the name cd and a plugin with handle_command is loaded.
C2_Witness ==
    /\ last.subst = 1
    /\ Lower(Head(last.cmd)) = "cd"
    /\ "cd" \in extended
    /\ \E p \in Range(loaded_plugins) : HasHandleCommand(p)
    /\ last.outcome = "returned"

\* C3: the alias check substitutes the first token at most once: the
\* command that is dispatched is the expansion of the typed first token
\* followed by the typed arguments (or the typed line when its first token
\* is no alias), it is not looked up in the alias store again, and the call
\* reaches the builtin, extended or plugin/interpreter stage with it.
C3_AliasSubstitutedOnce ==
    last.line # <<>>
        => /\ last.subst <= 1
           /\ last.subst = 1 <=> Lower(Head(last.line)) \in DOMAIN last.al
           /\ last.cmd =
                 IF Lower(Head(last.line)) \in DOMAIN last.al
                 THEN Split(last.al[Lower(Head(last.line))]) \o Tail(last.line)
                 ELSE last.line
           /\ last.stage \in {"builtin", "extended", "chain"}
           /\ last.stage = Stage(extended, Lower(Head(last.cmd)))
           /\ last.calls # <<>>

\* C3 witness: two aliases that name each other; the line starts with one
\* of them and the call returned.
C3_Witness ==
    /\ last.subst = 1
    /\ last.outcome = "returned"
    /\ Lower(Head(last.cmd)) \in DOMAIN last.al
    /\ Lower(Head(last.cmd)) # Lower(Head(last.line))
    /\ Lower(Head(Split(last.al[Lower(Head(last.cmd))]))) = Lower(Head(last.line))

\* the dispatch of the last call and of a line resolved directly against
\* the same alias store and registries
LastDispatch == [stage |-> last.stage, cmd |-> last.cmd]

DirectDispatch(command) ==
    LET d == Resolve(last.al, extended, command)
    IN  [stage |-> d.stage, cmd |-> d.cmd]

\* C4, as stated (for the lines on which the alias lookup hits): when the
\* expansion does not start with the alias's own name, the line
\* 'name args' is dispatched as the line 'expansion args' is.
C4_AliasEqualsExpansion ==
    (/\ last.line # <<>>
     /\ Lower(Head(last.line)) \in DOMAIN last.al
     /\ Lower(Head(Split(last.al[Lower(Head(last.line))])))
           # Lower(Head(last.line)))
        => LastDispatch =
             DirectDispatch(Split(last.al[Lower(Head(last.line))])
                            \o Tail(last.line))

\* C4, amended: when the first token of the expansion, lowercased, is not
\* a name of the alias store, a line whose lowercased first token is the
\* alias is dispatched to the same executor with the same tokens as the
\* line 'expansion args'.
C4_AliasEqualsExpansionUnlessChained ==
    (/\ last.line # <<>>
     /\ Lower(Head(last.line)) \in DOMAIN last.al
     /\ Lower(Head(Split(last.al[Lower(Head(last.line))])))
           \notin DOMAIN last.al)
        => LastDispatch =
             DirectDispatch(Split(last.al[Lower(Head(last.line))])
                            \o Tail(last.line))

\* C4 witness: an alias of a builtin, typed with trailing arguments, in a
\* store that holds another alias too.
C4_Witness ==
    /\ last.subst = 1
    /\ Tail(last.line) # <<>>
    /\ Lower(Head(last.cmd)) \notin DOMAIN last.al
    /\ last.stage = "builtin"
    /\ Cardinality(DOMAIN last.al) = 2

\* C5, as stated: for every alias of the store and every line whose first
\* token equals its name ignoring case, the first token is replaced by the
\* expansion followed by the typed arguments.
C5_AliasLookupIgnoresCase ==
    last.line # <<>>
        => \A n \in DOMAIN last.al :
              Lower(n) = Lower(Head(last.line))
                 => last.cmd = Split(last.al[n]) \o Tail(last.line)

\* C6, as stated: a line that does not resolve to the exit/quit builtin
\* leaves the main loop at the prompt, whatever its handler or a plugin
\* does; the process keeps running.
C6_OnlyExitTerminates ==
    (/\ last.line # <<>>
     /\ ~(last.stage = "builtin" /\ Lower(Head(last.cmd)) \in {"exit", "quit"}))
        => pc = "prompt"

\* the plugins of loaded_plugins that have handle_command, in load order
Handlers == SelectSeq(loaded_plugins, HasHandleCommand)

\* the plugin calls of the last execute_command, in call order
PluginCalls == SelectSeq(last.calls, IsPluginCall)

\* C7, as stated: when no builtin or extended command matches, the plugins
\* with handle_command are called in load order with the full token
\* sequence, up to the first that returns true and none after it, and the
\* external interpreter runs if and only if no plugin returned true.
C7_PluginChainThenExternal ==
    last.stage = "chain"
        => /\ Len(PluginCalls) <= Len(Handlers)
           /\ \A i \in DOMAIN PluginCalls :
                  /\ PluginCalls[i].name = Handlers[i]
                  /\ PluginCalls[i].args = last.cmd
                  /\ PluginCalls[i].result = "true" => i = Len(PluginCalls)
           /\ (\A i \in DOMAIN PluginCalls : PluginCalls[i].result # "true")
                 => Len(PluginCalls) = Len(Handlers)
           /\ (\E i \in DOMAIN last.calls : last.calls[i].kind = "external")
                 <=> (\A i \in DOMAIN PluginCalls :
                         PluginCalls[i].result # "true")

\* the files load_plugins has been through
Scanned == plugin_dir \ pending

\* C8: load failures are isolated per module: whatever the scan order, the
\* loaded-plugin set holds exactly the scanned modules that executed
\* without failure and expose register, each once; when main() goes on
\* after load_plugins, every file of the directory has been scanned.
C8_LoadFailuresIsolated ==
    /\ Range(loaded_plugins) =
          {f \in Scanned : ~LoadRaises(f) /\ HasRegister(f)}
    /\ Len(loaded_plugins) = Cardinality(Range(loaded_plugins))
    /\ pending \subseteq plugin_dir
    /\ pc # "load" => pending = {}

\* C8 witness: a directory with a failing and a valid module; the shell is
\* at the prompt with the valid one loaded and the failure reported.
C8_Witness ==
    /\ pc = "prompt"
    /\ plugin_dir = {"broken", "good"}
    /\ loaded_plugins = <<"good">>
    /\ <<"broken", "failed">> \in reports

\* C9, as stated: every scanned module that is omitted from the
\* loaded-plugin set has a failure report naming it.
C9_EveryOmissionReported ==
    \A f \in Scanned :
        f \notin Range(loaded_plugins) => <<f, "failed">> \in reports

\* whether the last execute_command called handle_command of plugin f
CalledPlugin(f) ==
    \E i \in DOMAIN last.calls :
        last.calls[i].kind = "plugin" /\ last.calls[i].name = f

\* C10, as stated: a module that loads without error and exposes
\* handle_command, with or without the initialization entry point, is part
\* of the dispatch chain: it is in the loaded-plugin set and is called for a
\* line that matches no builtin and no extended command (unless a plugin
\* before it ended the chain).
C10_EntryPointsOptional ==
    \A f \in plugin_dir :
        (pc # "load" /\ ~LoadRaises(f) /\ HasHandleCommand(f))
            => /\ f \in Range(loaded_plugins)
               /\ (/\ last.stage = "chain"
                    /\ \A i \in DOMAIN PluginCalls :
                           PluginCalls[i].result = "false")
                      => CalledPlugin(f)

\* C10, amended: handle_command is optional, register is not: a module that
\* loads without error is part of the loaded-plugin set if and only if it
\* exposes register.  A loaded plugin with handle_command is called for a
\* line that matches no builtin and no extended command when every plugin
\* called before it returned false; a module without register is never
\* called.
C10_RegisterRequired ==
    \A f \in plugin_dir :
        /\ (pc # "load" /\ ~LoadRaises(f))
              => (f \in Range(loaded_plugins) <=> HasRegister(f))
        /\ CalledPlugin(f) => HasRegister(f) /\ HasHandleCommand(f)
        /\ (/\ last.stage = "chain"
             /\ f \in Range(loaded_plugins)
             /\ HasHandleCommand(f)
             /\ \A i \in DOMAIN PluginCalls : PluginCalls[i].result = "false")
              => CalledPlugin(f)

\* C10 witness: the directory holds a module with handle_command and no
\* register next to a full plugin; a line matched no command, the full
\* plugin was called and declined, and the interpreter ran.
C10_Witness ==
    /\ plugin_dir = {"noreg", "good"}
    /\ last.stage = "chain"
    /\ CalledPlugin("good")
    /\ ~CalledPlugin("noreg")
    /\ \E i \in DOMAIN last.calls : last.calls[i].kind = "external"


----------------------------------------------------------------------------
(* The startup script and the history *)

\* the records the script's commands leave in the history, in file order
Dispatchable(lines) ==
    LET cmds == SelectSeq(lines, IsScriptCommand)
    IN  [i \in 1..Len(cmds) |-> Join(Split(cmds[i]))]

\* C11: when the startup script runner has returned, every line of the
\* script that is neither blank nor a comment has been dispatched through
\* execute_command exactly once, in file order, whatever happened to the
\* lines before it; a failing line has been reported; without a script
\* file the runner's loop is never entered.
C11_EveryScriptLineDispatched ==
    /\ ScriptDone => command_history = Dispatchable(startup_script.lines)
    /\ pc = "script_error" => "Startup script error" \in printed
    /\ ~startup_script.exists => pc \notin {"script", "script_error"}

\* C12: every execute_command call leaves exactly one record in
\* command_history, the input line as typed (before alias substitution),
\* and the record is there whether the handler returned, exited or raised.
C12_HistoryRecordsEveryCall ==
    ncalls > 0 =>
        /\ Len(command_history) =
              (IF ncalls < HistoryMaxLen THEN ncalls ELSE HistoryMaxLen)
        /\ command_history[Len(command_history)] = Join(last.line)

\* an aliased line whose handler raised is in the history as typed
C12_Witness ==
    /\ ncalls > 1
    /\ last.subst = 1
    /\ last.outcome = "raised"
    /\ last.cmd # last.line
    /\ command_history[Len(command_history)] = Join(last.line)


----------------------------------------------------------------------------
(* The alias and bookmark files *)

AliasOps == {"alias", "unalias"}

BookmarkOps == {"bookmark", "unbookmark"}

\* the file is a JSON object with exactly the entries of the store
Holds(file, store) ==
    /\ file.state = "json"
    /\ Len(file.pairs) = Cardinality(DOMAIN store)
    /\ \A n \in DOMAIN store :
          \E i \in DOMAIN file.pairs : file.pairs[i] = <<n, store[n]>>

\* C13: after an alias, unalias, bookmark or unbookmark command that changed
\* its store and whose write succeeded, the backing file holds exactly the
\* in-memory map, whatever the file held before and in whatever order the
\* entries were written, and loading the file gives the same map back; a
\* command that does not reach the save leaves map and file as they were.
C13_FileHoldsStore ==
    /\ (step.op \in AliasOps /\ step.wrote /\ step.w = "ok") =>
          /\ Holds(alias_file, aliases)
          /\ LoadStore(alias_file) = [store |-> aliases, failed |-> FALSE]
    /\ (step.op \in BookmarkOps /\ step.wrote /\ step.w = "ok") =>
          /\ Holds(bookmark_file, bookmarks)
          /\ LoadStore(bookmark_file) = [store |-> bookmarks, failed |-> FALSE]
    /\ (step.op \notin {"none", "boot"} /\ ~step.wrote) =>
          /\ aliases = step.aliases /\ alias_file = step.alias_file
          /\ bookmarks = step.bookmarks /\ bookmark_file = step.bookmark_file

\* a second alias was written over a file that was not in step with the map
C13_Witness ==
    /\ step.op = "alias" /\ step.wrote /\ step.w = "ok"
    /\ ~Holds(step.alias_file, step.aliases)
    /\ Len(alias_file.pairs) = 2
    /\ alias_file.pairs[1][1] = "ll"
    /\ LoadStore(alias_file).store = aliases

\* the store after "alias name words.." / "bookmark name [path]" (set) or
\* "unalias name" / "unbookmark name" (delete), entry by entry
ChangedAt(store, before, name, set) ==
    /\ DOMAIN store = (IF set THEN DOMAIN before \cup {name}
                       ELSE DOMAIN before \ {name})
    /\ \A n \in DOMAIN store \ {name} : store[n] = before[n]

\* C14: when the write of the backing file fails during alias, unalias,
\* bookmark or unbookmark, the failure is reported, the change of the
\* in-memory map is kept, the command returns to the prompt loop, and the
\* alias lookup of every later line uses the map in memory.
C14_WriteFailureKeepsChange ==
    /\ (step.op \in AliasOps /\ step.wrote /\ step.w # "ok") =>
          /\ pc = "prompt"
          /\ "Failed to save aliases" \in printed
          /\ ChangedAt(aliases, step.aliases, step.args[1], step.op = "alias")
          /\ step.op = "alias" => aliases[step.args[1]] = Join(Tail(step.args))
          /\ alias_file \in {step.alias_file, CorruptFile}
    /\ (step.op \in BookmarkOps /\ step.wrote /\ step.w # "ok") =>
          /\ pc = "prompt"
          /\ "Failed to save bookmarks" \in printed
          /\ ChangedAt(bookmarks, step.bookmarks, step.args[1],
                       step.op = "bookmark")
          /\ bookmark_file \in {step.bookmark_file, CorruptFile}
    /\ (step.op \notin {"none", "boot"}) =>
          (last.subst = 1 <=> Lower(Head(last.line)) \in DOMAIN step.aliases)

\* the write of a new alias failed half-way
C14_Witness ==
    /\ step.op = "alias" /\ step.wrote /\ step.w = "partial"
    /\ alias_file = CorruptFile
    /\ step.alias_file # CorruptFile
    /\ aliases # step.aliases

\* C15: whatever the state of the alias or bookmark file when the shell
\* starts (missing, not creatable, unreadable, corrupt), startup goes on to
\* the prompt loop with that store empty, and a file that could not be read
\* has been reported.
C15_StartupTolerant ==
    step.op = "boot" =>
        /\ pc # "crashed"
        /\ step.alias_file.state # "json" => aliases = EmptyStore
        /\ step.bookmark_file.state # "json" => bookmarks = EmptyStore
        /\ step.alias_file.state \in {"unreadable", "corrupt"} =>
              "Failed to load aliases" \in printed
        /\ step.bookmark_file.state \in {"unreadable", "corrupt"} =>
              "Failed to load bookmarks" \in printed


----------------------------------------------------------------------------
(* Bookmarks and the working directory *)

\* the absolute path "bookmark name [path]" asked for
Asked == AbsPath(step.cwd, IF Len(step.args) > 1 THEN step.args[2] ELSE step.cwd)

\* C16: the bookmark store is a map.  Setting a name stores the absolute
\* path under it, silently replacing an entry of that name and leaving the
\* others alone, so that setting the same name and path again changes
\* nothing; cd @name goes to the stored path as it is; after a removal the
\* name is absent; removing an absent name reports not-found and changes
\* neither the map nor the file.
C16_BookmarkStoreIsMap ==
    /\ (step.op = "bookmark" /\ step.wrote) =>
          /\ printed = {}
          /\ ChangedAt(bookmarks, step.bookmarks, step.args[1], TRUE)
          /\ bookmarks[step.args[1]] = Asked
          /\ (/\ step.args[1] \in DOMAIN step.bookmarks
              /\ step.bookmarks[step.args[1]] = Asked) =>
                 bookmarks = step.bookmarks
    /\ (/\ step.op = "cd" /\ step.args # <<>> /\ IsBookmarkRef(step.args[1])
        /\ RefName(step.args[1]) \in DOMAIN step.bookmarks
        /\ step.bookmarks[RefName(step.args[1])] \in step.dirs) =>
          cwd = step.bookmarks[RefName(step.args[1])]
    /\ (step.op = "unbookmark" /\ step.args # <<>>) =>
          IF step.args[1] \in DOMAIN step.bookmarks
          THEN /\ step.args[1] \notin DOMAIN bookmarks
               /\ ChangedAt(bookmarks, step.bookmarks, step.args[1], FALSE)
          ELSE /\ "Bookmark not found" \in printed
               /\ bookmarks = step.bookmarks
               /\ bookmark_file = step.bookmark_file

\* a bookmark given as a relative name is reached from another directory
\* under the absolute path it was stored with
C16_Witness ==
    /\ step.op = "cd" /\ step.args = <<"@w">>
    /\ "w" \in DOMAIN bookmarks
    /\ bookmarks["w"] = "/a/sub"
    /\ step.cwd = Home
    /\ cwd = "/a/sub"

\* C17: bookmark stores a path only if it exists and is a directory when
\* the command runs; otherwise it reports an error and leaves the map and
\* the file as they were.  Every entry added through the shell was a
\* directory when it was added.
C17_BookmarkOnlyDirectories ==
    /\ (step.op = "bookmark" /\ step.args # <<>>) =>
          IF Asked \in step.dirs
          THEN step.wrote /\ bookmarks[step.args[1]] = Asked
          ELSE /\ "Not a directory" \in printed
               /\ bookmarks = step.bookmarks
               /\ bookmark_file = step.bookmark_file
    /\ \A n \in DOMAIN bookmarks : bookmarks[n] \in Directories

\* a directory that has gone is refused while the entry of that name stays
C17_Witness ==
    /\ step.op = "bookmark" /\ step.args = <<"w", "/b">>
    /\ "/b" \notin step.dirs
    /\ "Not a directory" \in printed
    /\ "w" \in DOMAIN bookmarks
    /\ bookmarks["w"] = "/a/sub"

\* C18: cd @name with a name that is no bookmark, or with a bookmark whose
\* directory no longer exists, reports an error, leaves the working
\* directory as it was and returns to the prompt loop.
C18_CdBookmarkFailure ==
    (/\ step.op = "cd" /\ step.args # <<>> /\ IsBookmarkRef(step.args[1])
     /\ \/ RefName(step.args[1]) \notin DOMAIN step.bookmarks
        \/ step.bookmarks[RefName(step.args[1])] \notin step.dirs) =>
        /\ pc = "prompt"
        /\ cwd = step.cwd
        /\ printed = (IF RefName(step.args[1]) \in DOMAIN step.bookmarks
                      THEN {"No such directory"} ELSE {"Bookmark not found"})

\* a dangling bookmark, used away from home
C18_Witness ==
    /\ step.op = "cd" /\ step.args = <<"@w">>
    /\ "w" \in DOMAIN bookmarks
    /\ bookmarks["w"] \notin dirs
    /\ printed = {"No such directory"}
    /\ cwd = "/a"

\* C19: after a cd that succeeded in moving from A to B, OLDPWD is A; a
\* cd - whose OLDPWD still exists moves to it, and OLDPWD becomes the
\* directory it left.
C19_OldpwdAfterCd ==
    /\ (step.op = "cd" /\ printed = {}) => oldpwd = step.cwd
    /\ (step.op = "cd" /\ step.args = <<"-">> /\ step.oldpwd \in step.dirs) =>
          /\ printed = {}
          /\ cwd = step.oldpwd
          /\ oldpwd = step.cwd

\* cd - back to a directory the shell itself left
C19_Witness ==
    /\ step.op = "cd" /\ step.args = <<"-">>
    /\ step.cwd = "/a/sub"
    /\ step.oldpwd = "/a"
    /\ cwd = "/a"
    /\ oldpwd = "/a/sub"


----------------------------------------------------------------------------
(* The prompt cache *)

\* C20: update_prompt_cache never raises because of version control: when
\* no repository encloses the working directory, when the branch name
\* cannot be had, or when the dirty-flag query fails, it returns normally
\* with the branch empty, the dirty flag false and both counts zero.
C20_PromptCacheNeverRaises ==
    (refresh.called /\ Truthy(config.show_git)) =>
        /\ refresh.outcome = "returned"
        /\ pc # "crashed"
        /\ (\/ refresh.g.repo = "none"
            \/ refresh.g.branch = "detached"
            \/ refresh.g.dirty = "error") =>
              /\ prompt_cache.git_status = ""
              /\ prompt_cache.git_dirty = FALSE
              /\ prompt_cache.git_ahead = 0
              /\ prompt_cache.git_behind = 0

----------------------------------------------------------------------------
(* cd - and the failed cd *)

\* C26: a cd that fails (the target is missing, is not a directory or cannot
\* be entered) leaves the working directory and OLDPWD as they were.
C26_FailedCdKeepsOldpwd ==
    (step.op = "cd" /\ printed # {}) =>
        /\ cwd = step.cwd
        /\ oldpwd = step.oldpwd

\* C30: cd - with OLDPWD = B, an existing directory, in directory A gives
\* cwd = B and OLDPWD = A, and one more cd - gives cwd = A and OLDPWD = B
\* again; with OLDPWD unset cd - reports an error and changes neither.
C30_CdDashSwaps ==
    /\ (step.op = "cd" /\ step.args = <<"-">> /\ step.oldpwd \in step.dirs) =>
          /\ cwd = step.oldpwd
          /\ oldpwd = step.cwd
          /\ ShellCd(<<"-">>, cwd, oldpwd, bookmarks, dirs) =
                [cwd |-> step.cwd, oldpwd |-> step.oldpwd, printed |-> {}]
    /\ (step.op = "cd" /\ step.args = <<"-">> /\ step.oldpwd = "") =>
          /\ printed = {"No previous directory"}
          /\ cwd = step.cwd
          /\ oldpwd = ""

\* cd - from /a with OLDPWD = /b
C30_Witness ==
    /\ step.op = "cd" /\ step.args = <<"-">>
    /\ step.cwd = "/a"
    /\ step.oldpwd = "/b"
    /\ cwd = "/b"
    /\ oldpwd = "/a"

----------------------------------------------------------------------------
(* The configuration *)

\* the prompt segment a flag switches
Segment(k) ==
    CASE k = "show_time" -> "time"
      [] k = "show_git" -> "git"
      [] OTHER -> "venv"

\* C29: after any sequence of config_set commands, saves and loads,
\* show_time, show_git and show_venv are booleans and max_path_length is an
\* integer; get_prompt_parts does not fail; a flag set to "false" removes
\* its segment from the prompt.
C29_ConfigKeepsTypes ==
    /\ \A k \in {"show_time", "show_git", "show_venv"} : config[k].t = "bool"
    /\ config.max_path_length.t = "int"
    /\ get_prompt_parts(config, prompt_cache).outcome = "returned"
    /\ pc # "crashed"
    /\ \A k \in {"show_time", "show_git", "show_venv"} :
          last.line = <<"config_set", k, "false">> =>
              Segment(k) \notin get_prompt_parts(config, prompt_cache).parts

----------------------------------------------------------------------------
(* The prompt loop *)

\* the last pass of the loop dispatched a line that set a known theme
ThemeChanged ==
    /\ turn.kind = "theme"
    /\ Len(last.line) > 1
    /\ last.line[2] \in THEMES

\* C21: the prompt state is recomputed at startup; a dispatched line that
\* returns recomputes it exactly when it left a working directory other
\* than the cached one or changed the theme.
C21_RecomputedExactly ==
    /\ turn.kind = "startup" => turn.refreshed
    /\ (turn.kind \in {"cd", "mkcd", "theme"} /\ ~turn.interrupted) =>
          (turn.refreshed <=> (cwd # turn.cached \/ ThemeChanged))

\* C28: whenever the loop shows the prompt, the cached directory is the
\* working directory.
C28_CacheFollowsCwd ==
    pc = "prompt" => prompt_cache.cwd = cwd

----------------------------------------------------------------------------
(* The interpreter fallback *)

\* the last call ended in the interpreter, with this result
ExternalEnded(call, result) ==
    /\ call.calls # <<>>
    /\ call.calls[Len(call.calls)].kind = "external"
    /\ call.calls[Len(call.calls)].result = result

\* C22: an interrupt during the wait for the interpreter ends the line only:
\* run_system_command returns, the loop is back at the prompt, and the
\* aliases, the bookmarks, the plugins and the registry are what they were;
\* the history holds the line, recorded before the wait, and nothing else
\* new.
C22_InterruptCancelsLine ==
    [][(ncalls' # ncalls /\ ExternalEnded(last', "interrupted")) =>
          /\ last'.outcome = "returned"
          /\ pc' = "prompt"
          /\ aliases' = aliases
          /\ bookmarks' = bookmarks
          /\ loaded_plugins' = loaded_plugins
          /\ extended' = extended
          /\ command_history' = Append(command_history, Join(last'.line))]_vars

\* an interrupted line typed through an alias, a plugin loaded
C22_Witness ==
    /\ ExternalEnded(last, "interrupted")
    /\ last.subst = 1
    /\ "ll" \in DOMAIN aliases
    /\ loaded_plugins # <<>>
    /\ printed = {"Command interrupted"}
    /\ pc = "prompt"

\* C23: the interpreter fallback raises nothing into the router: a missing
\* interpreter is reported once and nothing is spawned; a non-zero exit
\* status is neither reported nor re-raised; execute_command returns and
\* the loop is at the prompt.
C23_FallbackNeverRaises ==
    /\ ExternalEnded(last, "not_found") =>
          /\ printed = {"PowerShell executable not found"}
          /\ last.outcome = "returned"
          /\ pc = "prompt"
    /\ ExternalEnded(last, "nonzero") =>
          /\ printed = {}
          /\ last.outcome = "returned"
          /\ pc = "prompt"

----------------------------------------------------------------------------
(* Aliases named like commands *)

\* an environment in which no plugin takes the line
QuietEnv ==
    [res |-> [p \in Range(loaded_plugins) |-> "false"], mk |-> "ok",
     ps |-> "found"]

\* C27: at the prompt, every alias of the store is removed by the line
\* "unalias <name>" dispatched through execute_command.
C27_EveryAliasRemovable ==
    pc = "prompt" =>
        \A n \in DOMAIN aliases :
            n \notin DOMAIN execute_command(aliases, extended, loaded_plugins,
                                            <<"unalias", n>>, QuietEnv).aliases

----------------------------------------------------------------------------
(* The completer *)

\* the line before the cursor
TextBefore == SubSeq(document.text, 1, document.cursor)

\* the line before the cursor holds a token and does not end in whitespace
MidToken ==
    /\ TextBefore # <<>>
    /\ TextBefore[Len(TextBefore)] # " "

\* the word the cursor is in or after
CurrentWord == SplitText(TextBefore)[Len(SplitText(TextBefore))]

\* the elements of a sequence from index a to index b
Slice(seq, a, b) == {seq[i] : i \in a..b}

\* C24: with one token before the cursor, not followed by whitespace, the
\* completer yields the registered commands whose lowercase form starts
\* with the lowercase word, in sorted order; then the aliases matching the
\* same way, shown with the alias mark; then, when the word starts with @,
\* the bookmarks whose lowercase name starts with the lowercase text after
\* the @, written with the @; and nothing else.  For the word se the
\* commands are search, serve.
C24_CommandPosition ==
    (completions.asked /\ MidToken /\ Len(SplitText(TextBefore)) = 1) =>
        LET w == CurrentWord
            Matches(n) == startswith(LowerStr(n), LowerStr(w))
            cs == SelectSeq(SessionCommands, Matches)
            as == {n \in DOMAIN aliases : Matches(Spell(n))}
            bs == IF Head(w) # "@" THEN {}
                  ELSE {n \in DOMAIN bookmarks :
                          startswith(LowerStr(Spell(n)), LowerStr(Tail(w)))}
            items == completions.items
            nc == Len(cs)
            na == Cardinality(as)
        IN  /\ Len(items) = nc + na + Cardinality(bs)
            /\ \A i \in 1..nc : items[i] = Completion(cs[i], Len(w), cs[i])
            /\ Slice(items, nc + 1, nc + na) =
                  {Completion(Spell(n), Len(w), Spell(n) \o <<" (alias)">>) :
                     n \in as}
            /\ Slice(items, nc + na + 1, Len(items)) =
                  {Completion(<<"@">> \o Spell(n), Len(w), <<"@">> \o Spell(n)) :
                     n \in bs}
            /\ w = <<"s", "e">> =>
                  cs = <<<<"s", "e", "a", "r", "c", "h">>,
                         <<"s", "e", "r", "v", "e">>>>

\* C25: with two or more tokens before the cursor, the last one not
\* followed by whitespace, the completer yields the entries of the
\* directory part of the word ("." when it has none) whose lowercase form
\* starts with the lowercase partial name, a directory shown with its
\* mark; it yields nothing when that part is no directory or cannot be
\* listed.  Read matches README.md and readme.txt.
C25_ArgumentPosition ==
    (completions.asked /\ MidToken /\ Len(SplitText(TextBefore)) >= 2) =>
        LET parts == path_split(expanduser(CurrentWord))
            prefix == IF parts.head = <<>> THEN <<".">> ELSE parts.head
            es == {e \in TreeEntries(prefix) :
                     startswith(LowerStr(e), LowerStr(parts.tail))}
            items == completions.items
        IN  /\ Len(items) = IF IsDirPath(prefix) /\ ~ListDenied(prefix)
                            THEN Cardinality(es) ELSE 0
            /\ Slice(items, 1, Len(items)) =
                  {Completion(e, Len(parts.tail),
                              IF IsDirPath(path_join(prefix, e))
                              THEN e \o <<"/">> ELSE e) : e \in es}
            /\ CurrentWord = <<"R", "e", "a", "d">> => es = {README, Readme}

============================================================================
